---- MODULE Spec2Model ----
(***************************************************************************)
(* Target-control pipeline of Bloom: the AVR8 target facade (Avr8) driving  *)
(* the EDBG AVR8 debug interface (EdbgAvr8Interface) and, for DWEN fuse     *)
(* management, the ISP interface.                                           *)
(*                                                                         *)
(* Every facade operation is one action.  An operation is computed as the   *)
(* set of states it can end in: each command frame sent to the probe is     *)
(* answered OK or FAILED, an exception skips the rest of the operation up   *)
(* to the handler that catches it, and everything the operation sent to or  *)
(* polled from the probe is recorded, in order, in `trace`.                 *)
(***************************************************************************)
EXTENDS Integers, Sequences, FiniteSets, TLC

VARIABLES
    config,                     \* Avr8TargetConfig, TDF data and tool capabilities
    activated,                  \* Avr8::activated
    progModeEnabled,            \* Avr8::progModeEnabled
    targetState,                \* EdbgAvr8Interface::targetState
    physicalInterfaceActivated, \* EdbgAvr8Interface::physicalInterfaceActivated
    targetAttached,             \* EdbgAvr8Interface::targetAttached
    programmingModeEnabled,     \* EdbgAvr8Interface::programmingModeEnabled
    ispActive,                  \* the ISP interface has been activated and not deactivated
    fuses,                      \* the target's fuse bytes, by fuse type
    events,                     \* the probe's queue of pending AVR events
    op,                         \* the last facade operation and its arguments
    outcome,                    \* "none" when it returned, else the exception it threw
    stateBefore,                \* the tracked target state when the operation began
    fuseAccess,                 \* the fuse and lock bytes the operation read and wrote, in order
    trace,                      \* what the operation sent, polled and assigned, in order
    memory,                     \* the target's RAM, FLASH and EEPROM bytes, by address
    memAccess,                  \* the ReadMemory and WriteMemory frames the operation sent, in order
    request,                    \* the arguments and the result of the last memory request
    written,                    \* the last write the facade accepted
    programCounter,             \* the target's program counter, a word address, when known
    lastCommandId,              \* Command::lastCommandId
    constructing,               \* by thread: the Command constructor it runs, if any
    commandIds                  \* the ids the counter gave out, in the order it gave them

vars == <<config, activated, progModeEnabled, targetState, physicalInterfaceActivated,
          targetAttached, programmingModeEnabled, ispActive, fuses, events,
          op, outcome, stateBefore, fuseAccess, trace, memory, memAccess, request, written,
          programCounter, lastCommandId, constructing, commandIds>>

(***************************************************************************)
(* Bounds                                                                  *)
(***************************************************************************)
\* The most events the probe holds pending between two operations.
MaxEvents == 2

\* The longest buffer read or written in one memory request.
MaxLen == 5

\* The most memory writes requested of one target.
MaxWrites == 1

\* The furthest an address or a length to align lies above 0, 2^24 or 2^25.
MaxOffset == 4
MaxThreads == 3
MaxCommands == 5

(***************************************************************************)
(* Bytes are sets of the bit positions that are 1: AND is intersection, OR  *)
(* is union, NOT is the complement in 0..7.                                 *)
(***************************************************************************)
Byte0xFF == 0 .. 7
BitAnd(a, b) == a \cap b
BitOr(a, b) == a \cup b
BitNot(a) == Byte0xFF \ a

(***************************************************************************)
(* Configurations: the target configuration, the data the target           *)
(* description file (TDF) provides and what the debug tool offers.  None of *)
(* it changes after construction.                                           *)
(***************************************************************************)
FuseBitsDescriptor(fuseType, bitMask) == [fuseType |-> fuseType, bitMask |-> bitMask]

\* DWEN/OCDEN and the bit enabling the live interface (SPIEN/JTAGEN) in one fuse byte.
SameByteLayout ==
    [dwen |-> FuseBitsDescriptor("HIGH", {6}), spien |-> FuseBitsDescriptor("HIGH", {5}),
     ocden |-> FuseBitsDescriptor("HIGH", {7}), jtagen |-> FuseBitsDescriptor("HIGH", {6})]

\* ... and in two different fuse bytes.
SplitByteLayout ==
    [dwen |-> FuseBitsDescriptor("HIGH", {6}), spien |-> FuseBitsDescriptor("LOW", {5}),
     ocden |-> FuseBitsDescriptor("HIGH", {7}), jtagen |-> FuseBitsDescriptor("LOW", {6})]

BaseConfig ==
    [family |-> "MEGA", physicalInterface |-> "DEBUG_WIRE",
     manageDwenFuseBit |-> FALSE, manageOcdenFuseBit |-> FALSE,
     disableDebugWireOnDeactivate |-> FALSE, cycleTargetPowerPostDwenUpdate |-> FALSE,
     hasIspInterface |-> FALSE, hasTargetDescription |-> TRUE,
     reactivateJtagTargetPostProgrammingMode |-> FALSE,
     avoidMaskedMemoryRead |-> FALSE,
     preserveEeprom |-> FALSE,
     layout |-> SameByteLayout]

DebugWireBase == [BaseConfig EXCEPT !.manageDwenFuseBit = TRUE, !.hasIspInterface = TRUE]
JtagBase == [BaseConfig EXCEPT !.physicalInterface = "JTAG", !.manageOcdenFuseBit = TRUE]

\* Configurations in which a fuse update can reach the target's fuses.
FuseManagingConfigs ==
    { DebugWireBase,
      [DebugWireBase EXCEPT !.disableDebugWireOnDeactivate = TRUE],
      [DebugWireBase EXCEPT !.cycleTargetPowerPostDwenUpdate = TRUE],
      [DebugWireBase EXCEPT !.layout = SplitByteLayout],
      JtagBase,
      [JtagBase EXCEPT !.reactivateJtagTargetPostProgrammingMode = TRUE],
      [JtagBase EXCEPT !.layout = SplitByteLayout] }

OtherConfigs ==
    { BaseConfig,
      [DebugWireBase EXCEPT !.hasIspInterface = FALSE],
      [DebugWireBase EXCEPT !.hasTargetDescription = FALSE],
      [JtagBase EXCEPT !.manageOcdenFuseBit = FALSE],
      [JtagBase EXCEPT !.hasTargetDescription = FALSE],
      [JtagBase EXCEPT !.family = "XMEGA", !.manageOcdenFuseBit = FALSE],
      [BaseConfig EXCEPT !.family = "XMEGA", !.physicalInterface = "PDI"],
      [BaseConfig EXCEPT !.family = "DA", !.physicalInterface = "UPDI"] }

Configs == FuseManagingConfigs \cup OtherConfigs

\* Fuse bytes a target may hold: 0xFF, 0xD9, 0x99, 0x19, 0xBF, 0x7F.
FuseByteValues ==
    { Byte0xFF, {0, 3, 4, 6, 7}, {0, 3, 4, 7}, {0, 3, 4}, Byte0xFF \ {6}, Byte0xFF \ {7} }

LowFuseByteValues == { Byte0xFF, Byte0xFF \ {5, 6} }

InitialFuses(c) ==
    IF c \in FuseManagingConfigs
    THEN { [LOW |-> l, HIGH |-> h] :
             l \in (IF c.layout = SplitByteLayout THEN LowFuseByteValues ELSE {Byte0xFF}),
             h \in FuseByteValues }
    ELSE { [LOW |-> Byte0xFF, HIGH |-> {0, 3, 4, 6, 7}] }

(***************************************************************************)
(* EdbgAvr8Interface::resolveConfigVariant                                  *)
(***************************************************************************)
\* The table with JTAG taken for a megaAVR interface whatever the family.
ConfigVariantsWithJtagAlwaysMega(family) ==
    CASE family \in {"MEGA", "TINY"} ->
            [JTAG |-> "MEGAJTAG", DEBUG_WIRE |-> "DEBUG_WIRE", UPDI |-> "UPDI"]
      [] family = "XMEGA" -> [JTAG |-> "MEGAJTAG", PDI |-> "XMEGA"]
      [] family \in {"DA", "DB", "DD", "EA"} -> [UPDI |-> "UPDI"]
      [] OTHER -> [i \in {} |-> "NONE"]

getConfigVariantsByFamilyAndPhysicalInterface(family) ==
    CASE family \in {"MEGA", "TINY"} ->
            [JTAG |-> "MEGAJTAG", DEBUG_WIRE |-> "DEBUG_WIRE", UPDI |-> "UPDI"]
      [] family = "XMEGA" -> [JTAG |-> "XMEGA", PDI |-> "XMEGA"]
      [] family \in {"DA", "DB", "DD", "EA"} -> [UPDI |-> "UPDI"]
      [] OTHER -> [i \in {} |-> "NONE"]

\* A fallback map that takes JTAG for a megaAVR interface.
resolveConfigVariantGuessingJtag(family, physicalInterface) ==
    IF family # "NONE"
    THEN LET byInterface == getConfigVariantsByFamilyAndPhysicalInterface(family)
         IN  IF physicalInterface \in DOMAIN byInterface
             THEN byInterface[physicalInterface]
             ELSE "NONE"
    ELSE LET physicalInterfacesToConfigVariants ==
                 [DEBUG_WIRE |-> "DEBUG_WIRE", PDI |-> "XMEGA", UPDI |-> "UPDI",
                  JTAG |-> "MEGAJTAG"]
         IN  IF physicalInterface \in DOMAIN physicalInterfacesToConfigVariants
             THEN physicalInterfacesToConfigVariants[physicalInterface]
             ELSE "NONE"

\* "NONE" stands for std::nullopt, and for an unset family.
resolveConfigVariant(family, physicalInterface) ==
    IF family # "NONE"
    THEN LET byInterface == getConfigVariantsByFamilyAndPhysicalInterface(family)
         IN  IF physicalInterface \in DOMAIN byInterface
             THEN byInterface[physicalInterface]
             ELSE "NONE"
    ELSE LET physicalInterfacesToConfigVariants ==
                 [DEBUG_WIRE |-> "DEBUG_WIRE", PDI |-> "XMEGA", UPDI |-> "UPDI"]
         IN  IF physicalInterface \in DOMAIN physicalInterfacesToConfigVariants
             THEN physicalInterfacesToConfigVariants[physicalInterface]
             ELSE "NONE"

\* EdbgAvr8Interface::configure
configVariant == resolveConfigVariant(config.family, config.physicalInterface)

(***************************************************************************)
(* Operations as sets of outcomes.  A state record holds the program's      *)
(* fields, the probe's event queue, the target's fuses, the pending         *)
(* exception (exc, "none" when there is none), the failure code of an       *)
(* Avr8CommandFailure, the value last returned (ret) and the trace.         *)
(***************************************************************************)
Cur ==
    [activated |-> activated, progModeEnabled |-> progModeEnabled,
     targetState |-> targetState,
     physicalInterfaceActivated |-> physicalInterfaceActivated,
     targetAttached |-> targetAttached,
     programmingModeEnabled |-> programmingModeEnabled,
     ispActive |-> ispActive, fuses |-> fuses, events |-> events,
     exc |-> "none", code |-> "NONE", ret |-> "none", fuseAccess |-> <<>>,
     trace |-> <<>>, memory |-> memory, memAccess |-> <<>>,
     programCounter |-> programCounter]

Ok(s) == s.exc = "none"

\* S; F: F continues every outcome of S that did not throw.
Then(S, F(_)) == UNION { IF Ok(t) THEN F(t) ELSE {t} : t \in S }

\* try { S } catch (const Exception&) { H }: H continues every outcome that threw.
Catch(S, H(_)) == UNION { IF Ok(t) THEN {t} ELSE H(t) : t \in S }

Throw(s, kind) == [s EXCEPT !.exc = kind]
Caught(s) == [s EXCEPT !.exc = "none", !.code = "NONE"]
Return(s, value) == [s EXCEPT !.ret = value]
Log(s, entry) == [s EXCEPT !.trace = Append(@, entry)]

\* A call of `name` on state s that ends in one of the outcomes S: its entry and how it
\* ended (return or throw) are recorded around what it did.
Call(name, S) ==
    { Log(t, <<name, IF Ok(t) THEN "return" ELSE "throw">>) : t \in S }

Enter(s, name) == Log(s, <<name, "enter">>)

\* A fuse or lock byte read from, or written to, the target.
FuseAccess(s, access, fuseType, value) ==
    [s EXCEPT !.fuseAccess =
         Append(@, [access |-> access, fuseType |-> fuseType, value |-> value])]

\* The program counter of a target that has run since it was last read or set: any word
\* of the flash.
NoProgramCounter == [known |-> FALSE, address |-> 0]

\* this->targetState = state
SetTargetState(s, state) ==
    [Log(s, <<"targetState", state>>) EXCEPT !.targetState = state]

(***************************************************************************)
(* The probe (EdbgInterface): one command frame out, one response frame in, *)
(* and a poll for one pending AVR event.                                    *)
(***************************************************************************)
FailureCodes == {"DEBUGWIRE_PHYSICAL_ERROR", "FAILED_TO_ENABLE_OCD", "INVALID_ADDRESS"}

\* sendAvrCommandFrameAndWaitForResponseFrame, followed by the
\* "if (responseFrame.id == FAILED) throw Avr8CommandFailure" of every caller.
SendFrame(s, frame) ==
    { Log(IF frame \in {"Run", "RunTo", "Step", "Reset"}
          THEN [s EXCEPT !.programCounter = NoProgramCounter]
          ELSE s,
          <<frame, "OK">>),
      [Throw(Log(s, <<frame, "FAILED">>), "Avr8CommandFailure") EXCEPT !.code = "INVALID_ADDRESS"] }

RECURSIVE SendFrames(_, _)
SendFrames(s, frameSeq) ==
    IF frameSeq = <<>> THEN {s}
    ELSE Then(SendFrame(s, Head(frameSeq)), LAMBDA t : SendFrames(t, Tail(frameSeq)))

\* EdbgAvr8Interface::getAvrEvent: ret is the event polled, "none" for nullptr.
getAvrEvent(s) ==
    IF s.events = <<>>
    THEN Return(Log(s, <<"poll", "none">>), "none")
    ELSE Return([Log(s, <<"poll", Head(s.events)>>) EXCEPT !.events = Tail(@)],
                Head(s.events))

\* EdbgAvr8Interface::clearEvents
RECURSIVE clearEvents(_)
clearEvents(s) ==
    LET t == getAvrEvent(s)
    IN  IF t.ret # "none" THEN clearEvents(t) ELSE t

(***************************************************************************)
(* EdbgAvr8Interface: events and the tracked target state                   *)
(***************************************************************************)
\* waitForAvrEvent<BreakEvent>: polls until a Break event is polled (ret "BREAK") or
\* the attempts run out (ret "none").  A Break event may arrive during the wait.
RECURSIVE waitForAvrEvent(_)
waitForAvrEvent(s) ==
    LET t == getAvrEvent(s)
    IN  CASE t.ret = "BREAK" -> {t}
          [] t.ret = "none" -> {t, Return(Log(t, <<"poll", "BREAK">>), "BREAK")}
          [] OTHER -> waitForAvrEvent(t)

waitForStoppedEvent(s) ==
    { IF t.ret = "none" THEN Throw(t, "Exception") ELSE SetTargetState(t, "STOPPED") :
        t \in waitForAvrEvent(s) }

\* refreshTargetState taking any polled event for a Break event.
refreshTargetStateOnAnyEvent(s) ==
    LET t == getAvrEvent(s)
    IN  IF t.ret # "none"
        THEN SetTargetState(t, "STOPPED")
        ELSE SetTargetState(t, "RUNNING")

refreshTargetState(s) ==
    LET t == getAvrEvent(s)
    IN  IF t.ret = "BREAK"
        THEN SetTargetState(t, "STOPPED")
        ELSE SetTargetState(t, "RUNNING")

\* getTargetState refreshing in every state.
getTargetStateAlwaysRefreshing(s) ==
    LET t == refreshTargetState(s)
    IN  Return(t, t.targetState)

getTargetState(s) ==
    LET t == IF s.targetState # "STOPPED" THEN refreshTargetState(s) ELSE s
    IN  Return(t, t.targetState)

(***************************************************************************)
(* EdbgAvr8Interface: execution control                                     *)
(***************************************************************************)
\* stop() returning without waiting for the target to stop.
stopWithoutWaiting(s) ==
    Then(SendFrame(s, "Stop"), LAMBDA t : {getTargetState(t)})

stop(s) ==
    Then(SendFrame(s, "Stop"),
         LAMBDA t : LET u == getTargetState(t)
                    IN  IF u.ret = "RUNNING" THEN waitForStoppedEvent(u) ELSE {u})

run(s) ==
    Then(SendFrame(clearEvents(s), "Run"), LAMBDA t : {SetTargetState(t, "RUNNING")})

runTo(s) ==
    Then(SendFrame(clearEvents(s), "RunTo"), LAMBDA t : {SetTargetState(t, "RUNNING")})

step(s) ==
    Then(SendFrame(s, "Step"), LAMBDA t : {SetTargetState(t, "RUNNING")})

\* reset() that returns although no Break event arrived.
resetIgnoringMissingEvent(s) ==
    Then(SendFrame(s, "Reset"),
         LAMBDA t : Catch(waitForStoppedEvent(t), LAMBDA u : {Caught(u)}))

reset(s) ==
    Then(SendFrame(s, "Reset"),
         LAMBDA t : Catch(waitForStoppedEvent(t),
                          LAMBDA u : {Throw(Caught(u), "Exception")}))

(***************************************************************************)
(* EdbgAvr8Interface: activation and deactivation                           *)
(***************************************************************************)
\* The parameters init() sets, in order.
\* init() that leaves the physical interface parameter out.
InitParametersWithoutPhysicalInterface ==
    (CASE configVariant = "XMEGA" -> <<"SetParameter:PDI_CLOCK_SPEED">>
       [] configVariant = "UPDI" ->
            <<"SetParameter:PDI_CLOCK_SPEED", "SetParameter:ENABLE_HIGH_VOLTAGE_UPDI">>
       [] configVariant = "MEGAJTAG" ->
            <<"SetParameter:MEGA_DEBUG_CLOCK", "SetParameter:JTAG_DAISY_CHAIN_SETTINGS">>
       [] OTHER -> <<>>)
    \o <<"SetParameter:CONFIG_VARIANT", "SetParameter:CONFIG_FUNCTION">>

InitParameters ==
    (CASE configVariant = "XMEGA" -> <<"SetParameter:PDI_CLOCK_SPEED">>
       [] configVariant = "UPDI" ->
            <<"SetParameter:PDI_CLOCK_SPEED", "SetParameter:ENABLE_HIGH_VOLTAGE_UPDI">>
       [] configVariant = "MEGAJTAG" ->
            <<"SetParameter:MEGA_DEBUG_CLOCK", "SetParameter:JTAG_DAISY_CHAIN_SETTINGS">>
       [] OTHER -> <<>>)
    \o <<"SetParameter:CONFIG_VARIANT", "SetParameter:CONFIG_FUNCTION",
         "SetParameter:PHYSICAL_INTERFACE">>

init(s) == SendFrames(s, InitParameters)

\* setTargetParameters: the device parameters of the variant, pushed one frame each;
\* the first that fails ends the push.
setTargetParameters(s) ==
    IF configVariant = "NONE"
    THEN {Throw(s, "DeviceInitializationFailure")}
    ELSE SendFrames(s, <<"SetParameter:DEVICE">>)

\* The first failure surfaced, with no second attempt.
activatePhysicalWithoutRetry(s, applyExternalReset) ==
    LET frame == IF applyExternalReset THEN "ActivatePhysical+Reset" ELSE "ActivatePhysical"
    IN  { [Log(s, <<frame, "OK">>) EXCEPT !.physicalInterfaceActivated = TRUE] }
        \cup { [Throw(Log(Log(s, <<frame, "FAILED">>), <<"Avr8CommandFailure", c>>),
                      "Avr8CommandFailure")
                   EXCEPT !.code = c] : c \in FailureCodes }

RECURSIVE activatePhysical(_, _)
activatePhysical(s, applyExternalReset) ==
    LET frame == IF applyExternalReset THEN "ActivatePhysical+Reset" ELSE "ActivatePhysical"
    IN  { [Log(s, <<frame, "OK">>) EXCEPT !.physicalInterfaceActivated = TRUE] }
        \cup (IF ~applyExternalReset
              THEN activatePhysical(Log(s, <<frame, "FAILED">>), TRUE)
              ELSE { [Throw(Log(Log(s, <<frame, "FAILED">>), <<"Avr8CommandFailure", c>>),
                            "Avr8CommandFailure")
                         EXCEPT !.code = c] : c \in FailureCodes })

deactivatePhysical(s) ==
    Then(SendFrame(s, "DeactivatePhysical"),
         LAMBDA t : {[t EXCEPT !.physicalInterfaceActivated = FALSE]})

attach(s) ==
    Then(SendFrame(s, IF configVariant # "MEGAJTAG" THEN "Attach+Break" ELSE "Attach"),
         LAMBDA t : Catch(waitForStoppedEvent([t EXCEPT !.targetAttached = TRUE]),
                          LAMBDA u : {Caught(u)}))

detach(s) ==
    Then(SendFrame(s, "Detach"), LAMBDA t : {[t EXCEPT !.targetAttached = FALSE]})

disableDebugWire(s) == SendFrame(s, "DisableDebugWire")

\* activate() taking every failure to activate the debugWire physical interface for a
\* DebugWirePhysicalInterfaceError, whatever its failure code.
activateIgnoringFailureCode(s) ==
    Then(IF ~s.physicalInterfaceActivated
         THEN Catch(activatePhysical(s, FALSE),
                    LAMBDA t :
                        IF config.physicalInterface = "DEBUG_WIRE"
                        THEN {Throw(t, "DebugWirePhysicalInterfaceError")}
                        ELSE {t})
         ELSE {s},
         LAMBDA t : IF ~t.targetAttached THEN attach(t) ELSE {t})

\* EdbgAvr8Interface::activate
activate(s) ==
    Then(IF ~s.physicalInterfaceActivated
         THEN Catch(activatePhysical(s, FALSE),
                    LAMBDA t :
                        IF /\ config.physicalInterface = "DEBUG_WIRE"
                           /\ t.code \in {"DEBUGWIRE_PHYSICAL_ERROR", "FAILED_TO_ENABLE_OCD"}
                        THEN {Throw(t, "DebugWirePhysicalInterfaceError")}
                        ELSE {t})
         ELSE {s},
         LAMBDA t : IF ~t.targetAttached THEN attach(t) ELSE {t})

\* EdbgAvr8Interface::deactivate
\* deactivate() without the try/catch around disableDebugWire().
deactivateStoppedByDisableDebugWire(s) ==
    Then(IF s.targetAttached
         THEN Then(IF /\ config.physicalInterface = "DEBUG_WIRE"
                      /\ config.disableDebugWireOnDeactivate
                   THEN disableDebugWire(s)
                   ELSE {s},
                   detach)
         ELSE {s},
         LAMBDA t : IF t.physicalInterfaceActivated THEN deactivatePhysical(t) ELSE {t})

deactivate(s) ==
    Then(IF s.targetAttached
         THEN Then(IF /\ config.physicalInterface = "DEBUG_WIRE"
                      /\ config.disableDebugWireOnDeactivate
                   THEN Catch(disableDebugWire(s), LAMBDA t : {Caught(t)})
                   ELSE {s},
                   detach)
         ELSE {s},
         LAMBDA t : IF t.physicalInterfaceActivated THEN deactivatePhysical(t) ELSE {t})

clearAllBreakpoints(s) == SendFrame(s, "ClearAllSoftwareBreakpoints")

(***************************************************************************)
(* EdbgAvr8Interface: programming mode                                      *)
(***************************************************************************)
enableProgrammingMode(s) ==
    IF s.programmingModeEnabled
    THEN {s}
    ELSE Then(SendFrame(s, "EnterProgrammingMode"),
              LAMBDA t : {[t EXCEPT !.programmingModeEnabled = TRUE]})

disableProgrammingMode(s) ==
    IF ~s.programmingModeEnabled
    THEN {s}
    ELSE Then(SendFrame(s, "LeaveProgrammingMode"),
              LAMBDA t :
                  LET u == [t EXCEPT !.programmingModeEnabled = FALSE]
                  IN  IF /\ configVariant = "MEGAJTAG"
                         /\ config.reactivateJtagTargetPostProgrammingMode
                      THEN Then(deactivatePhysical(u),
                                LAMBDA v : activate([v EXCEPT !.targetAttached = FALSE]))
                      ELSE {u})

(***************************************************************************)
(* EdbgAvr8Interface: device id and fuse memory                             *)
(***************************************************************************)
\* The signature of the target description file, and another one.
Signatures == {"TD_SIGNATURE", "OTHER_SIGNATURE"}

\* EdbgAvr8Interface::getDeviceId: ret is the signature of the connected target.
getDeviceId(s) ==
    Then(SendFrame(s, IF configVariant = "UPDI" THEN "ReadMemory:SRAM" ELSE "GetDeviceId"),
         LAMBDA t : { Return(Log(t, <<"signature", sig>>), sig) : sig \in Signatures })

\* EdbgAvr8Interface::readMemory(TargetMemoryType::FUSES, byteAddress, 1): ret is the
\* fuse byte.  A fuse byte is addressed by its fuse type.
readMemoryFuses(s, byteAddress) ==
    IF configVariant = "DEBUG_WIRE"
    THEN {Throw(s, "Exception")}
    ELSE Then(SendFrame(s, "ReadMemory:FUSES"),
              LAMBDA t : {Return(FuseAccess(t, "read", byteAddress, t.fuses[byteAddress]),
                                 t.fuses[byteAddress])})

\* EdbgAvr8Interface::writeMemory(TargetMemoryType::FUSES, byteAddress, {value}).
\* The target takes the byte, or keeps the old one although the probe answers OK.
writeMemoryFuses(s, byteAddress, value) ==
    IF configVariant = "DEBUG_WIRE"
    THEN {Throw(s, "Exception")}
    ELSE Then(SendFrame(s, "WriteMemory:FUSES"),
              LAMBDA t :
                  LET u == FuseAccess(t, "write", byteAddress, value)
                  IN  {[u EXCEPT !.fuses[byteAddress] = value], u})

(***************************************************************************)
(* EdbgAvr8Interface: memory access.  The target description the model      *)
(* runs with has two flash pages (one in the application section, one in    *)
(* the boot section), three EEPROM pages, and RAM behind two bytes of       *)
(* mapped registers.  A memory buffer is a sequence of byte values.         *)
(***************************************************************************)
\* The flash memory segments of the target description file, by name, with their start
\* addresses in bytes.
flashMemorySegments ==
    [app_section |-> [startAddress |-> 0], boot_section |-> [startAddress |-> 4]]

\* TargetDescriptionFile::getTargetParameters
targetParameters ==
    [flashPageSize |-> 4, eepromPageSize |-> 2,
     flashStartAddress |-> 0, flashSize |-> 8,
     ramStartAddress |-> 2, ramSize |-> 4, eepromSize |-> 6,
     appSectionStartAddress |-> flashMemorySegments.app_section.startAddress,
     bootSectionStartAddress |-> flashMemorySegments.boot_section.startAddress \div 2,
     eepromStartAddress |-> IF configVariant \in {"XMEGA", "UPDI"} THEN 16 ELSE 0,
     ocdDataRegister |-> IF configVariant \in {"DEBUG_WIRE", "MEGAJTAG"} THEN {4} ELSE {}]

\* TargetDescriptor::memoryDescriptorsByType: the address range of each memory.
memoryDescriptorsByType ==
    [FLASH |-> [addressRange |-> [startAddress |-> 0, endAddress |-> 7]],
     RAM |-> [addressRange |-> [startAddress |-> 2, endAddress |-> 5]],
     EEPROM |-> [addressRange |-> [startAddress |-> targetParameters.eepromStartAddress,
                                   endAddress |-> targetParameters.eepromStartAddress + 5]]]

\* The memories of an erased target; RAM is addressed from 0, where the registers are
\* mapped, and EEPROM by the offset into it.
InitialMemory ==
    [FLASH |-> [a \in 0 .. 7 |-> 255],
     RAM |-> [a \in 0 .. 5 |-> 255],
     EEPROM |-> [a \in 0 .. 5 |-> 255],
     REGISTER_FILE |-> [a \in 0 .. 1 |-> 255]]

Avr8MemoryTypes ==
    {"SRAM", "FLASH_PAGE", "SPM", "APPL_FLASH", "BOOT_FLASH",
     "EEPROM", "EEPROM_PAGE", "EEPROM_ATOMIC", "FUSES", "REGISTER_FILE"}

\* The byte of the target that the probe accesses at `address` of memory type `type`:
\* the section types are relative to their section, and so is EEPROM on XMEGA.
ProbeAddress(type, address) ==
    CASE type = "SRAM" -> [memory |-> "RAM", address |-> address]
      [] type = "REGISTER_FILE" -> [memory |-> "REGISTER_FILE", address |-> address]
      [] type \in {"FLASH_PAGE", "SPM"} -> [memory |-> "FLASH", address |-> address]
      [] type = "APPL_FLASH" ->
            [memory |-> "FLASH",
             address |-> flashMemorySegments.app_section.startAddress + address]
      [] type = "BOOT_FLASH" ->
            [memory |-> "FLASH",
             address |-> flashMemorySegments.boot_section.startAddress + address]
      [] OTHER ->
            [memory |-> "EEPROM",
             address |-> IF configVariant = "XMEGA"
                         THEN address
                         ELSE address - targetParameters.eepromStartAddress]

ProbeCovers(s, type, startAddress, bytes) ==
    \A a \in startAddress .. (startAddress + bytes - 1) :
        ProbeAddress(type, a).address \in DOMAIN s.memory[ProbeAddress(type, a).memory]

\* The ReadMemory frame: answered FAILED, or, when the target has all the bytes, with
\* the bytes.
ReadMemoryFrame(s, type, startAddress, bytes) ==
    LET t == [s EXCEPT !.memAccess = Append(@, [access |-> "read", type |-> type,
                                                address |-> startAddress, bytes |-> bytes])]
    IN  { [Throw(Log(t, <<"ReadMemory", "FAILED">>), "Avr8CommandFailure")
              EXCEPT !.code = "INVALID_ADDRESS"] }
        \cup (IF ProbeCovers(s, type, startAddress, bytes)
              THEN { Return(Log(t, <<"ReadMemory", "OK">>),
                            [i \in 1 .. bytes |->
                                LET at == ProbeAddress(type, startAddress + i - 1)
                                IN  s.memory[at.memory][at.address]]) }
              ELSE {})

\* The bits that are 1 in a byte value.
Bits(value) == { b \in Byte0xFF : (value \div (2 ^ b)) % 2 = 1 }

\* The fuse byte at an address of the fuses: the low fuse byte at 0 and the high one at 1.
FuseTypeAt(address) ==
    CASE address = 0 -> "LOW" [] address = 1 -> "HIGH" [] OTHER -> "NONE"

\* The WriteMemory frame: answered FAILED, or, when the target has all the bytes,
\* written to them; a frame of the type FUSES is written to the fuse bytes it covers.
WriteMemoryFrame(s, type, startAddress, buffer) ==
    LET t == [s EXCEPT !.memAccess = Append(@, [access |-> "write", type |-> type,
                                                address |-> startAddress,
                                                bytes |-> Len(buffer)])]
        Written(name) ==
            [a \in DOMAIN s.memory[name] |->
                IF \E i \in 1 .. Len(buffer) :
                       ProbeAddress(type, startAddress + i - 1) = [memory |-> name, address |-> a]
                THEN buffer[CHOOSE i \in 1 .. Len(buffer) :
                                ProbeAddress(type, startAddress + i - 1)
                                    = [memory |-> name, address |-> a]]
                ELSE s.memory[name][a]]
        FuseWritten(fuseType) ==
            LET at == { i \in 1 .. Len(buffer) :
                            FuseTypeAt(startAddress + i - 1) = fuseType }
            IN  IF at = {} THEN s.fuses[fuseType] ELSE Bits(buffer[CHOOSE i \in at : TRUE])
    IN  { [Throw(Log(t, <<"WriteMemory", "FAILED">>), "Avr8CommandFailure")
              EXCEPT !.code = "INVALID_ADDRESS"] }
        \cup (IF type = "FUSES"
              THEN { [Log(t, <<"WriteMemory", "OK">>)
                         EXCEPT !.fuses = [f \in DOMAIN s.fuses |-> FuseWritten(f)]] }
              ELSE IF ProbeCovers(s, type, startAddress, Len(buffer))
              THEN { [Log(t, <<"WriteMemory", "OK">>)
                         EXCEPT !.memory = [name \in DOMAIN s.memory |-> Written(name)]] }
              ELSE {})

\* EdbgAvr8Interface::alignmentRequired
alignmentRequired(memoryType) ==
    memoryType \in {"FLASH_PAGE", "SPM", "APPL_FLASH", "BOOT_FLASH", "EEPROM_ATOMIC", "EEPROM_PAGE"}

\* The alignTo of alignMemoryAddress and alignMemoryBytes.
AlignTo(memoryType) ==
    CASE memoryType \in {"FLASH_PAGE", "SPM", "APPL_FLASH", "BOOT_FLASH"} ->
            targetParameters.flashPageSize
      [] memoryType \in {"EEPROM_ATOMIC", "EEPROM_PAGE"} -> targetParameters.eepromPageSize
      [] OTHER -> 1

RECURSIVE BitLength(_)
BitLength(n) == IF n = 0 THEN 0 ELSE 1 + BitLength(n \div 2)

\* The distance between the single-precision floats around the integer n >= 2^23:
\* a float holds 24 significant bits.
FloatSpacing(n) == IF n < 16777216 THEN 1 ELSE 2 ^ (BitLength(n) - 24)

\* static_cast<float>(n): the nearest float, ties to the even mantissa.
ToFloat(n) ==
    LET spacing == FloatSpacing(n)
        below == (n \div spacing) * spacing
    IN  IF 2 * (n - below) < spacing THEN below
        ELSE IF 2 * (n - below) > spacing THEN below + spacing
        ELSE IF (below \div spacing) % 2 = 0 THEN below
        ELSE below + spacing

\* std::floor and std::ceil of the float quotient x / d of the float x by the 16-bit d.
\* An exact quotient is a float.  Otherwise it lies between q and q + 1: from 2^23 on
\* floats are integers, so the quotient is rounded to one; below, it is rounded to a
\* float 2^-k apart, which is q + 1 (or q) only within 2^-(k+1) of it.
FloatQuotient(x, d) ==
    LET q == x \div d
        r == x % d
        k == 24 - BitLength(q)
        spacing == FloatSpacing(q)
        below == (q \div spacing) * spacing
        rounded == IF 2 * ((q - below) * d + r) < spacing * d THEN below
                   ELSE IF 2 * ((q - below) * d + r) > spacing * d THEN below + spacing
                   ELSE IF (below \div spacing) % 2 = 0 THEN below
                   ELSE below + spacing
    IN  IF r = 0 THEN [floor |-> q, ceil |-> q]
        ELSE IF q >= 8388608 THEN [floor |-> rounded, ceil |-> rounded]
        ELSE [floor |-> IF k < 15 /\ (d - r) * 2 ^ (k + 1) <= d THEN q + 1 ELSE q,
              ceil |-> IF k < 15 /\ r * 2 ^ (k + 1) <= d THEN q ELSE q + 1]

\* EdbgAvr8Interface::alignMemoryAddress
alignMemoryAddress(memoryType, address) ==
    LET alignTo == AlignTo(memoryType)
    IN  IF address % alignTo # 0
        THEN ToFloat(FloatQuotient(ToFloat(address), alignTo).floor * alignTo)
        ELSE address

\* EdbgAvr8Interface::alignMemoryBytes
alignMemoryBytes(memoryType, bytes) ==
    LET alignTo == AlignTo(memoryType)
    IN  IF bytes % alignTo # 0
        THEN ToFloat(FloatQuotient(ToFloat(bytes), alignTo).ceil * alignTo)
        ELSE bytes

\* EdbgInterface::getUsbHidInputReportSize of the debug tool the model runs with.
getUsbHidInputReportSize == 32

\* EdbgAvr8Interface::maximumMemoryAccessSize; no debug tool driver sets
\* maximumMemoryAccessSizePerRequest.
maximumMemoryAccessSize(memoryType) ==
    IF \/ memoryType \in {"FLASH_PAGE", "APPL_FLASH", "BOOT_FLASH"}
       \/ memoryType = "SPM" /\ configVariant = "MEGAJTAG"
    THEN targetParameters.flashPageSize
    ELSE IF memoryType \in {"EEPROM_ATOMIC", "EEPROM_PAGE"}
    THEN targetParameters.eepromPageSize
    ELSE (getUsbHidInputReportSize - 30) * 2

\* Chunks of one byte each, whatever the maximum.
ChunkSizeOfOne(remaining, maximum) == 1

\* std::min(remaining, maximum): the size of the next chunk.
ChunkSize(remaining, maximum) == IF remaining < maximum THEN remaining ELSE maximum

\* EdbgAvr8Interface::readMemory(Avr8MemoryType, ...) without excluded addresses: ret is
\* the buffer read.
RECURSIVE readAvr8Memory(_, _, _, _)
RECURSIVE ReadChunks(_, _, _, _, _)
readAvr8Memory(s, type, startAddress, bytes) ==
    LET alignedStartAddress == alignMemoryAddress(type, startAddress)
        alignedBytes == alignMemoryBytes(type, bytes + (startAddress - alignedStartAddress))
    IN  IF type = "FUSES" /\ configVariant = "DEBUG_WIRE"
        THEN {Throw(s, "Exception")}
        ELSE IF /\ alignmentRequired(type)
                /\ (alignedStartAddress # startAddress \/ alignedBytes # bytes)
        THEN Then(readAvr8Memory(s, type, alignedStartAddress, alignedBytes),
                  LAMBDA t : {Return(t, SubSeq(t.ret,
                                               (startAddress - alignedStartAddress) + 1,
                                               (startAddress - alignedStartAddress) + bytes))})
        ELSE IF bytes > maximumMemoryAccessSize(type)
        THEN ReadChunks(s, type, startAddress, bytes, <<>>)
        ELSE ReadMemoryFrame(s, type, startAddress, bytes)

\* The loop of readMemory that reads `bytes` bytes in chunks.
ReadChunks(s, type, startAddress, bytes, output) ==
    IF Len(output) < bytes
    THEN Then(readAvr8Memory(s, type, startAddress + Len(output),
                             ChunkSize(bytes - Len(output), maximumMemoryAccessSize(type))),
              LAMBDA t : ReadChunks(t, type, startAddress, bytes, output \o t.ret))
    ELSE {Return(s, output)}

\* The buffer laid at its offset into a buffer of zeroes, not into the bytes read.
OverlayOnZeroes(alignedBuffer, offset, buffer) ==
    [i \in 1 .. Len(alignedBuffer) |->
        IF i > offset /\ i <= offset + Len(buffer) THEN buffer[i - offset] ELSE 0]

\* std::copy(buffer.begin(), buffer.end(), alignedBuffer.begin()): the buffer laid at the
\* start of the aligned buffer.
OverlayAtStart(alignedBuffer, offset, buffer) ==
    [i \in 1 .. Len(alignedBuffer) |->
        IF i <= Len(buffer) THEN buffer[i] ELSE alignedBuffer[i]]

\* std::copy(buffer.begin(), buffer.end(), alignedBuffer.begin() + offset)
Overlay(alignedBuffer, offset, buffer) ==
    [i \in 1 .. Len(alignedBuffer) |->
        IF i > offset /\ i <= offset + Len(buffer) THEN buffer[i - offset] ELSE alignedBuffer[i]]

\* EdbgAvr8Interface::writeMemory(Avr8MemoryType, ...)
RECURSIVE writeAvr8Memory(_, _, _, _)
RECURSIVE WriteChunks(_, _, _, _, _)
writeAvr8Memory(s, type, startAddress, buffer) ==
    LET bytes == Len(buffer)
        alignedStartAddress == alignMemoryAddress(type, startAddress)
        alignedBytes == alignMemoryBytes(type, bytes + (startAddress - alignedStartAddress))
        readMemoryType == IF type = "EEPROM_ATOMIC" THEN "EEPROM" ELSE type
    IN  IF type = "FUSES" /\ configVariant = "DEBUG_WIRE"
        THEN {Throw(s, "Exception")}
        ELSE IF /\ alignmentRequired(type)
                /\ (alignedStartAddress # startAddress \/ alignedBytes # bytes)
        THEN Then(readAvr8Memory(s, readMemoryType, alignedStartAddress, alignedBytes),
                  LAMBDA t : writeAvr8Memory(t, type, alignedStartAddress,
                                             Overlay(t.ret, startAddress - alignedStartAddress,
                                                     buffer)))
        ELSE IF bytes > maximumMemoryAccessSize(type)
        THEN WriteChunks(s, type, startAddress, buffer, 0)
        ELSE WriteMemoryFrame(s, type, startAddress, buffer)

\* The loop of writeMemory that writes the buffer in chunks.
WriteChunks(s, type, startAddress, buffer, bytesWritten) ==
    IF bytesWritten < Len(buffer)
    THEN LET chunkSize == ChunkSize(Len(buffer) - bytesWritten, maximumMemoryAccessSize(type))
         IN  Then(writeAvr8Memory(s, type, startAddress + bytesWritten,
                                  SubSeq(buffer, bytesWritten + 1, bytesWritten + chunkSize)),
                  LAMBDA t : WriteChunks(t, type, startAddress, buffer,
                                         bytesWritten + chunkSize))
    ELSE {s}

\* The Avr8MemoryType and the start address that readMemory(TargetMemoryType, ...) reads
\* from.
ReadMemoryTarget(s, memoryType, startAddress) ==
    CASE memoryType = "RAM" -> [type |-> "SRAM", startAddress |-> startAddress]
      [] memoryType = "FLASH" ->
            (CASE configVariant \in {"DEBUG_WIRE", "UPDI"} ->
                    [type |-> "FLASH_PAGE", startAddress |-> startAddress]
               [] configVariant = "MEGAJTAG" ->
                    [type |-> IF s.programmingModeEnabled THEN "FLASH_PAGE" ELSE "SPM",
                     startAddress |-> startAddress]
               [] configVariant = "XMEGA" ->
                    IF startAddress >= targetParameters.bootSectionStartAddress
                    THEN [type |-> "BOOT_FLASH",
                          startAddress |-> startAddress - targetParameters.bootSectionStartAddress]
                    ELSE [type |-> "APPL_FLASH",
                          startAddress |-> startAddress - targetParameters.appSectionStartAddress]
               [] OTHER -> [type |-> "SRAM", startAddress |-> startAddress])
      [] memoryType = "EEPROM" ->
            [type |-> IF configVariant = "MEGAJTAG" /\ s.programmingModeEnabled
                      THEN "EEPROM_PAGE"
                      ELSE "EEPROM",
             startAddress |-> IF configVariant = "XMEGA"
                              THEN startAddress - targetParameters.eepromStartAddress
                              ELSE startAddress]
      [] memoryType = "FUSES" -> [type |-> "FUSES", startAddress |-> startAddress]
      [] OTHER -> [type |-> "SRAM", startAddress |-> startAddress]

\* EdbgAvr8Interface::readMemory(TargetMemoryType, ...) without excluded address ranges
readMemory(s, memoryType, startAddress, bytes) ==
    IF s.programmingModeEnabled /\ memoryType = "RAM"
    THEN {Throw(s, "Exception")}
    ELSE LET target == ReadMemoryTarget(s, memoryType, startAddress)
         IN  readAvr8Memory(s, target.type, target.startAddress, bytes)

\* The Avr8MemoryType and the start address that writeMemory(TargetMemoryType, ...)
\* writes to.
WriteMemoryTarget(s, memoryType, startAddress) ==
    CASE memoryType = "RAM" -> [type |-> "SRAM", startAddress |-> startAddress]
      [] memoryType = "FLASH" ->
            (CASE configVariant \in {"DEBUG_WIRE", "UPDI", "MEGAJTAG"} ->
                    [type |-> "FLASH_PAGE", startAddress |-> startAddress]
               [] configVariant = "XMEGA" ->
                    IF startAddress >= targetParameters.bootSectionStartAddress
                    THEN [type |-> "BOOT_FLASH",
                          startAddress |-> startAddress - targetParameters.bootSectionStartAddress]
                    ELSE [type |-> "APPL_FLASH",
                          startAddress |-> startAddress - targetParameters.appSectionStartAddress]
               [] OTHER -> [type |-> "SRAM", startAddress |-> startAddress])
      [] memoryType = "EEPROM" ->
            (CASE configVariant = "UPDI" ->
                    [type |-> "EEPROM_ATOMIC", startAddress |-> startAddress]
               [] configVariant = "XMEGA" ->
                    [type |-> "EEPROM_ATOMIC",
                     startAddress |-> startAddress - targetParameters.eepromStartAddress]
               [] configVariant = "MEGAJTAG" ->
                    [type |-> IF s.programmingModeEnabled THEN "EEPROM_PAGE" ELSE "EEPROM",
                     startAddress |-> startAddress]
               [] OTHER -> [type |-> "EEPROM", startAddress |-> startAddress])
      [] memoryType = "FUSES" -> [type |-> "FUSES", startAddress |-> startAddress]
      [] OTHER -> [type |-> "SRAM", startAddress |-> startAddress]

\* EdbgAvr8Interface::writeMemory(TargetMemoryType, ...)
writeMemory(s, memoryType, startAddress, buffer) ==
    LET target == WriteMemoryTarget(s, memoryType, startAddress)
    IN  writeAvr8Memory(s, target.type, target.startAddress, buffer)

(***************************************************************************)
(* The ISP interface (AvrIspInterface), used for DWEN fuse management.  Each *)
(* call succeeds or throws.                                                 *)
(***************************************************************************)
IspCall(s, name) ==
    { Log(s, <<name, "OK">>), Throw(Log(s, <<name, "FAILED">>), "Exception") }

ispActivate(s) ==
    Then(IspCall(s, "isp.activate"), LAMBDA t : {[t EXCEPT !.ispActive = TRUE]})

ispDeactivate(s) ==
    Then(IspCall(s, "isp.deactivate"), LAMBDA t : {[t EXCEPT !.ispActive = FALSE]})

ispGetDeviceId(s) ==
    Then(IspCall(s, "isp.getDeviceId"),
         LAMBDA t : { Return(Log(t, <<"isp.signature", sig>>), sig) : sig \in Signatures })

ispReadFuse(s, fuseType) ==
    Then(IspCall(s, "isp.readFuse"),
         LAMBDA t : {Return(FuseAccess(t, "read", fuseType, t.fuses[fuseType]),
                            t.fuses[fuseType])})

\* The lock bit byte of the target: 0xFF, or some lock bit set.
LockBitBytes == { Byte0xFF, Byte0xFF \ {0} }

ispReadLockBitByte(s) ==
    Then(IspCall(s, "isp.readLockBitByte"),
         LAMBDA t : { Return(FuseAccess(t, "read", "LOCK", b), b) : b \in LockBitBytes })

\* The target takes the fuse, or keeps the old one although the call returns.
ispProgramFuse(s, fuseType, value) ==
    Then(IspCall(s, "isp.programFuse"),
         LAMBDA t :
             LET u == FuseAccess(t, "write", fuseType, value)
             IN  {[u EXCEPT !.fuses[fuseType] = value], u})

(***************************************************************************)
(* Avr8: programming mode                                                   *)
(***************************************************************************)
Avr8_enableProgrammingMode(s) ==
    Then(enableProgrammingMode(s), LAMBDA t : {[t EXCEPT !.progModeEnabled = TRUE]})

Avr8_disableProgrammingMode(s) ==
    Then(disableProgrammingMode(s), LAMBDA t : {[t EXCEPT !.progModeEnabled = FALSE]})

(***************************************************************************)
(* Avr8: memory access                                                      *)
(***************************************************************************)
\* Avr8::readMemory without excluded address ranges
Avr8_readMemory(s, memoryType, startAddress, bytes) ==
    readMemory(s, memoryType, startAddress, bytes)

\* Avr8::programmingModeEnabled
Avr8_programmingModeEnabled(s) == s.progModeEnabled

\* Avr8::writeMemory
Avr8_writeMemory(s, memoryType, startAddress, buffer) ==
    IF memoryType = "FLASH" /\ ~Avr8_programmingModeEnabled(s)
    THEN {Throw(s, "Exception")}
    ELSE writeMemory(s, memoryType, startAddress, buffer)

(***************************************************************************)
(* Erasing memory                                                           *)
(***************************************************************************)
\* The EraseMemory frame: answered FAILED, or the chip, the boot section or the
\* application section is erased; erasing the chip erases the flash and the EEPROM.
EraseMemoryFrame(s, mode) ==
    LET erased(name, a) ==
            CASE mode = "EraseMemory:CHIP" -> name \in {"FLASH", "EEPROM"}
              [] mode = "EraseMemory:BOOT_SECTION" ->
                    name = "FLASH" /\ a >= flashMemorySegments.boot_section.startAddress
              [] OTHER ->
                    name = "FLASH" /\ a < flashMemorySegments.boot_section.startAddress
    IN  Then(SendFrame(s, mode),
             LAMBDA t : {[t EXCEPT !.memory =
                              [name \in DOMAIN t.memory |->
                                  [a \in DOMAIN t.memory[name] |->
                                      IF erased(name, a) THEN 255 ELSE t.memory[name][a]]]]})

\* eraseProgramMemory erasing the chip without a copy of the EEPROM to restore.
eraseProgramMemoryWithoutSnapshot(s) ==
    CASE configVariant = "DEBUG_WIRE" ->
            writeMemory(s, "FLASH", targetParameters.flashStartAddress,
                        [i \in 1 .. targetParameters.flashSize |-> 255])
      [] configVariant = "XMEGA" ->
            Then(EraseMemoryFrame(s, "EraseMemory:BOOT_SECTION"),
                 LAMBDA t : EraseMemoryFrame(t, "EraseMemory:APPLICATION_SECTION"))
      [] OTHER -> EraseMemoryFrame(s, "EraseMemory:CHIP")

\* EdbgAvr8Interface::eraseProgramMemory, of every section
eraseProgramMemory(s) ==
    LET Erase(t, eepromSnapshot, hasValue) ==
            Then(EraseMemoryFrame(t, "EraseMemory:CHIP"),
                 LAMBDA u : IF hasValue
                            THEN writeMemory(u, "EEPROM", targetParameters.eepromStartAddress,
                                             eepromSnapshot)
                            ELSE {u})
    IN  CASE configVariant = "DEBUG_WIRE" ->
                writeMemory(s, "FLASH", targetParameters.flashStartAddress,
                            [i \in 1 .. targetParameters.flashSize |-> 255])
          [] configVariant = "XMEGA" ->
                Then(EraseMemoryFrame(s, "EraseMemory:BOOT_SECTION"),
                     LAMBDA t : EraseMemoryFrame(t, "EraseMemory:APPLICATION_SECTION"))
          [] OTHER ->
                IF config.preserveEeprom
                THEN Then(readMemory(s, "EEPROM", targetParameters.eepromStartAddress,
                                     targetParameters.eepromSize),
                          LAMBDA t : Erase(t, t.ret, TRUE))
                ELSE Erase(Log(s, <<"Logger::warning", "EEPROM will be erased">>), <<>>, FALSE)

\* Avr8::eraseMemory
Avr8_eraseMemory(s, memoryType) ==
    IF memoryType = "FLASH"
    THEN IF config.physicalInterface = "DEBUG_WIRE"
         THEN {s}
         ELSE eraseProgramMemory(s)
    ELSE Avr8_writeMemory(s, memoryType,
                          IF memoryType = "RAM"
                          THEN targetParameters.ramStartAddress
                          ELSE targetParameters.eepromStartAddress,
                          [i \in 1 .. (IF memoryType = "RAM"
                                       THEN targetParameters.ramSize
                                       ELSE targetParameters.eepromSize) |-> 255])

(***************************************************************************)
(* EdbgAvr8Interface: the program counter                                   *)
(***************************************************************************)
\* The word addresses of the flash.
WordAddresses == 0 .. (memoryDescriptorsByType.FLASH.addressRange.endAddress \div 2)

\* The word address the probe answers GetProgramCounter with: the program counter of the
\* target, which the answer makes known.
ProgramCounterRead(s) ==
    { [s EXCEPT !.programCounter = [known |-> TRUE, address |-> word]] :
        word \in IF s.programCounter.known THEN {s.programCounter.address} ELSE WordAddresses }

\* GetProgramCounter's response frame: the word address of the payload as a byte address.
extractProgramCounter(word) == word * 2

\* getProgramCounter asking for the program counter whatever the tracked state.
getProgramCounterWithoutStopping(s) ==
    Then(SendFrame(s, "GetProgramCounter"),
         LAMBDA t : { Return(u, extractProgramCounter(u.programCounter.address)) :
                        u \in ProgramCounterRead(t) })

\* EdbgAvr8Interface::getProgramCounter: ret is the byte address.
getProgramCounter(s) ==
    Then(Then(IF s.targetState # "STOPPED" THEN stop(s) ELSE {s},
              LAMBDA t : SendFrame(t, "GetProgramCounter")),
         LAMBDA t : { Return(u, extractProgramCounter(u.programCounter.address)) :
                        u \in ProgramCounterRead(t) })

\* The SetProgramCounter frame with the word address `address`: answered FAILED, or taken
\* by the target.
SetProgramCounterFrame(s, address) ==
    Then(SendFrame([s EXCEPT !.memAccess = Append(@, [access |-> "setProgramCounter",
                                                      type |-> "NONE",
                                                      address |-> address, bytes |-> 0])],
                   "SetProgramCounter"),
         LAMBDA t : {[t EXCEPT !.programCounter = [known |-> TRUE, address |-> address]]})

\* setProgramCounter sending the byte address as it is given.
setProgramCounterInBytes(s, address) ==
    Then(IF s.targetState # "STOPPED" THEN stop(s) ELSE {s},
         LAMBDA t : SetProgramCounterFrame(t, address))

\* EdbgAvr8Interface::setProgramCounter
setProgramCounter(s, address) ==
    Then(IF s.targetState # "STOPPED" THEN stop(s) ELSE {s},
         LAMBDA t : SetProgramCounterFrame(t, address \div 2))

(***************************************************************************)
(* EdbgAvr8Interface: registers                                             *)
(***************************************************************************)
\* TargetRegisterDescriptor; hasStartAddress is FALSE for a start address of std::nullopt.
TargetRegisterDescriptor(type, hasStartAddress, startAddress, size) ==
    [type |-> type, hasStartAddress |-> hasStartAddress, startAddress |-> startAddress,
     size |-> size]

\* The registers of the target: a general purpose register, the stack pointer, two
\* registers of the I/O space on both sides of the OCD data register, a register without
\* an address, and the program counter.
targetRegisterDescriptors ==
    { TargetRegisterDescriptor("GENERAL_PURPOSE_REGISTER", TRUE, 0, 1),
      TargetRegisterDescriptor("OTHER", TRUE, 1, 1),
      TargetRegisterDescriptor("STACK_POINTER", TRUE, 2, 2),
      TargetRegisterDescriptor("OTHER", TRUE, 5, 1),
      TargetRegisterDescriptor("OTHER", FALSE, 0, 1),
      TargetRegisterDescriptor("PROGRAM_COUNTER", FALSE, 0, 0) }

\* TargetRegisterType, in the order of the enumeration: the order of a std::map keyed
\* by it.
TargetRegisterTypes ==
    <<"GENERAL_PURPOSE_REGISTER", "PROGRAM_COUNTER", "STACK_POINTER", "STATUS_REGISTER",
      "PORT_REGISTER", "OTHER">>

Min(S) == CHOOSE x \in S : \A y \in S : x <= y
Max(S) == CHOOSE x \in S : \A y \in S : x >= y
Reverse(seq) == [i \in 1 .. Len(seq) |-> seq[Len(seq) + 1 - i]]

\* The ReadMemory frame with excluded addresses, the masked read: the probe answers 0x00
\* for the bytes at the excluded addresses.
ReadMemoryMaskedFrame(s, type, startAddress, bytes, excludedAddresses) ==
    Then(ReadMemoryFrame(s, type, startAddress, bytes),
         LAMBDA t : {Return(t, [i \in 1 .. bytes |->
                                   IF (startAddress + i - 1) \in excludedAddresses
                                   THEN 0
                                   ELSE t.ret[i]])})

\* EdbgAvr8Interface::readMemory(Avr8MemoryType, ...) with excluded addresses: ret is the
\* buffer read.
RECURSIVE readAvr8MemoryExcluding(_, _, _, _, _)
RECURSIVE ReadSegments(_, _, _, _, _, _)
RECURSIVE ReadMaskedChunks(_, _, _, _, _, _)
readAvr8MemoryExcluding(s, type, startAddress, bytes, excludedAddresses) ==
    IF excludedAddresses = {}
    THEN readAvr8Memory(s, type, startAddress, bytes)
    ELSE IF type = "FUSES" /\ configVariant = "DEBUG_WIRE"
    THEN {Throw(s, "Exception")}
    ELSE IF config.avoidMaskedMemoryRead \/ type # "SRAM"
    THEN ReadSegments(s, type, startAddress, startAddress + bytes - 1, excludedAddresses, <<>>)
    ELSE IF bytes > maximumMemoryAccessSize(type)
    THEN ReadMaskedChunks(s, type, startAddress, bytes, excludedAddresses, <<>>)
    ELSE ReadMemoryMaskedFrame(s, type, startAddress, bytes, excludedAddresses)

\* The driver-side masked read: one read for every segment between two excluded
\* addresses, and 0x00 for the byte at an excluded address. Addresses are 32 bits wide:
\* the end address of a read of no bytes at address 0 wraps around to the last address
\* there is, every excluded address lies before it, and the final segment is the rest of
\* the address space, a read that fails.
ReadSegments(s, type, segmentStartAddress, endAddress, excludedAddresses, output) ==
    LET wrapped == endAddress < 0
        ahead == { a \in excludedAddresses :
                       a >= segmentStartAddress /\ (wrapped \/ a <= endAddress) }
        segmentSize == IF ahead = {}
                       THEN (endAddress - segmentStartAddress) + 1
                       ELSE Min(ahead) - segmentStartAddress
        Continue(t, segmentBuffer) ==
            IF ahead = {}
            THEN {Return(t, output \o segmentBuffer)}
            ELSE ReadSegments(t, type, Min(ahead) + 1, endAddress, excludedAddresses,
                              (output \o segmentBuffer) \o <<0>>)
    IN  IF wrapped /\ ahead = {}
        THEN {Throw(s, "Avr8CommandFailure")}
        ELSE IF segmentSize > 0
        THEN Then(readAvr8Memory(s, type, segmentStartAddress, segmentSize),
                  LAMBDA t : Continue(t, t.ret))
        ELSE Continue(s, <<>>)

\* The loop of readMemory that reads `bytes` bytes in chunks, each a masked read.
ReadMaskedChunks(s, type, startAddress, bytes, excludedAddresses, output) ==
    IF Len(output) < bytes
    THEN Then(readAvr8MemoryExcluding(s, type, startAddress + Len(output),
                                      ChunkSize(bytes - Len(output),
                                                maximumMemoryAccessSize(type)),
                                      excludedAddresses),
              LAMBDA t : ReadMaskedChunks(t, type, startAddress, bytes, excludedAddresses,
                                          output \o t.ret))
    ELSE {Return(s, output)}

\* EdbgAvr8Interface::readMemory(TargetMemoryType, ...) with excluded address ranges: the
\* ranges are turned into a set of addresses, those of every range that does not start
\* beyond the end address of the read, which is computed from the start address as the
\* probe takes it and is the last address of all for a read of no bytes at address 0.
readMemoryExcludingRanges(s, memoryType, startAddress, bytes, excludedAddressRanges) ==
    IF s.programmingModeEnabled /\ memoryType = "RAM"
    THEN {Throw(s, "Exception")}
    ELSE LET target == ReadMemoryTarget(s, memoryType, startAddress)
             endAddress == target.startAddress + bytes - 1
             excludedAddresses ==
                 UNION { addressRange.startAddress .. addressRange.endAddress :
                             addressRange \in { r \in excludedAddressRanges :
                                                    \/ endAddress < 0
                                                    \/ ~(r.startAddress > endAddress) } }
         IN  readAvr8MemoryExcluding(s, target.type, target.startAddress, bytes,
                                     excludedAddresses)

\* readRegisters reading every register with a readMemory call of its own.
RECURSIVE ReadEachRegister(_, _, _)
readRegistersOneByOne(s, descriptors) ==
    ReadEachRegister(s, { d \in descriptors : d.hasStartAddress }, {})

ReadEachRegister(s, descriptors, output) ==
    IF descriptors = {}
    THEN {Return(s, output)}
    ELSE LET d == CHOOSE x \in descriptors : TRUE
             memoryType == IF /\ d.type = "GENERAL_PURPOSE_REGISTER"
                              /\ configVariant \in {"XMEGA", "UPDI"}
                           THEN "REGISTER_FILE"
                           ELSE "SRAM"
         IN  Then(readAvr8MemoryExcluding(Log(s, <<"readMemory", d.type>>), memoryType,
                                          d.startAddress, d.size, {}),
                  LAMBDA t : ReadEachRegister(t, descriptors \ {d},
                                              output \cup {[descriptor |-> d,
                                                            value |-> Reverse(t.ret)]}))

\* EdbgAvr8Interface::readRegisters: ret is the set of registers read, each the
\* descriptor and the value, most significant byte first.
RECURSIVE ReadRegisterTypes(_, _, _, _)
readRegisters(s, descriptors) ==
    ReadRegisterTypes(s, TargetRegisterTypes, { d \in descriptors : d.hasStartAddress }, {})

\* The loop of readRegisters over the register types: one readMemory call for the
\* address range of the descriptors of a type.
ReadRegisterTypes(s, types, descriptors, output) ==
    IF types = <<>>
    THEN {Return(s, output)}
    ELSE LET registerType == Head(types)
             ofType == { d \in descriptors : d.type = registerType }
             startAddress == Min({ d.startAddress : d \in ofType })
             endAddress == Max({ d.startAddress + (d.size - 1) : d \in ofType })
             bufferSize == (endAddress - startAddress) + 1
             memoryType == IF /\ registerType = "GENERAL_PURPOSE_REGISTER"
                              /\ configVariant \in {"XMEGA", "UPDI"}
                           THEN "REGISTER_FILE"
                           ELSE "SRAM"
             excludedAddresses == IF memoryType = "SRAM"
                                  THEN targetParameters.ocdDataRegister
                                  ELSE {}
             Registers(flatMemoryBuffer) ==
                 { [descriptor |-> d,
                    value |-> Reverse(SubSeq(flatMemoryBuffer,
                                             (d.startAddress - startAddress) + 1,
                                             (d.startAddress - startAddress) + d.size))] :
                     d \in ofType }
         IN  IF ofType = {}
             THEN ReadRegisterTypes(s, Tail(types), descriptors, output)
             ELSE Then(readAvr8MemoryExcluding(Log(s, <<"readMemory", registerType>>),
                                               memoryType, startAddress, bufferSize,
                                               excludedAddresses),
                       LAMBDA t : ReadRegisterTypes(t, Tail(types), descriptors,
                                                    output \cup Registers(t.ret)))

(***************************************************************************)
(* Avr8: registers                                                          *)
(***************************************************************************)
\* Avr8::getProgramCounterRegister: the four bytes of the program counter, which
\* Avr8::getProgramCounter has from the debug interface.
Avr8_getProgramCounterRegister(s) ==
    Then(getProgramCounter(s),
         LAMBDA t : {Return(t, [descriptor |-> TargetRegisterDescriptor("PROGRAM_COUNTER",
                                                                        FALSE, 0, 0),
                                value |-> <<(t.ret \div 16777216) % 256,
                                            (t.ret \div 65536) % 256,
                                            (t.ret \div 256) % 256,
                                            t.ret % 256>>])})

\* Avr8::readRegisters; a set of descriptors of the target holds the program counter at
\* most once.
Avr8_readRegisters(s, descriptors) ==
    LET others == { d \in descriptors : d.type # "PROGRAM_COUNTER" }
    IN  Then(IF others # descriptors
             THEN Then(Avr8_getProgramCounterRegister(s), LAMBDA t : {Return(t, {t.ret})})
             ELSE {Return(s, {})},
             LAMBDA t : IF others # {}
                        THEN Then(readRegisters(t, others),
                                  LAMBDA u : {Return(u, t.ret \cup u.ret)})
                        ELSE {t})

(***************************************************************************)
(* Writing registers.  A request is a sequence of registers, each the       *)
(* descriptor and the value, most significant byte first.                   *)
(***************************************************************************)
\* A buffer of `count` bytes of 0x00 followed by the buffer `value`.
ZeroPadded(value, count) == [i \in 1 .. count |-> 0] \o value

\* EdbgAvr8Interface::writeRegisters
RECURSIVE writeRegisters(_, _)
writeRegisters(s, registers) ==
    IF registers = <<>>
    THEN {s}
    ELSE LET registerDescriptor == Head(registers).descriptor
             value == Head(registers).value
             padded == IF Len(value) < registerDescriptor.size
                       THEN ZeroPadded(value, registerDescriptor.size - Len(value))
                       ELSE value
             registerValue == IF Len(padded) > 1 THEN Reverse(padded) ELSE padded
             memoryType == IF /\ registerDescriptor.type = "GENERAL_PURPOSE_REGISTER"
                              /\ configVariant \in {"XMEGA", "UPDI"}
                           THEN "REGISTER_FILE"
                           ELSE "SRAM"
         IN  IF value = <<>>
             THEN {Throw(s, "Exception")}
             ELSE IF Len(value) > registerDescriptor.size
             THEN {Throw(s, "Exception")}
             ELSE IF ~registerDescriptor.hasStartAddress
             THEN {Throw(s, "bad_optional_access")}
             ELSE Then(writeAvr8Memory(s, memoryType, registerDescriptor.startAddress,
                                       registerValue),
                       LAMBDA t : writeRegisters(t, Tail(registers)))

\* The address that Avr8::writeRegisters makes of the value of a program counter
\* register: of its first four bytes, after padding it to four.
ProgramCounterOfValue(value) ==
    LET programCounterBytes == IF Len(value) < 4
                               THEN ZeroPadded(value, 4 - Len(value))
                               ELSE value
    IN  programCounterBytes[1] * 16777216 + programCounterBytes[2] * 65536
            + programCounterBytes[3] * 256 + programCounterBytes[4]

\* Avr8::writeRegisters: the program counter registers of the request are set first, the
\* others are then passed to the debug interface.
RECURSIVE SetProgramCounterRegisters(_, _)
SetProgramCounterRegisters(s, registers) ==
    IF registers = <<>>
    THEN {s}
    ELSE IF Head(registers).descriptor.type = "PROGRAM_COUNTER"
    THEN Then(setProgramCounter(s, ProgramCounterOfValue(Head(registers).value)),
              LAMBDA t : SetProgramCounterRegisters(t, Tail(registers)))
    ELSE SetProgramCounterRegisters(s, Tail(registers))

Avr8_writeRegisters(s, registers) ==
    LET others == SelectSeq(registers, LAMBDA r : r.descriptor.type # "PROGRAM_COUNTER")
    IN  Then(SetProgramCounterRegisters(s, registers),
             LAMBDA t : IF others # <<>> THEN writeRegisters(t, others) ELSE {t})

(***************************************************************************)
(* The GDB server's handler of the write memory ("M") packet                *)
(***************************************************************************)
\* Connection::writePacket: the packet is written to the connection.
writePacket(s, packet) == Log(s, <<"writePacket", packet>>)

\* The range check that looks at the start address only.
OutsideMemoryRangeByStartOnly(startAddress, size, memoryStartAddress, endAddress) ==
    \/ startAddress < memoryStartAddress
    \/ startAddress > endAddress

\* The range check of WriteMemory::handle.
OutsideMemoryRange(startAddress, size, memoryStartAddress, endAddress) ==
    \/ startAddress < memoryStartAddress
    \/ startAddress + (size - 1) > endAddress

\* WriteMemory::handle for a packet parsed into memoryType, startAddress and buffer: ret
\* is the response packet written to the connection, whether the write was forwarded to
\* the target controller service (which hands it to Avr8::writeMemory), and the start
\* address forwarded.
WriteMemory_handle(s, memoryType, startAddress, buffer) ==
    LET Respond(t, response, forwarded, address) ==
            Return(writePacket(t, response),
                   [response |-> response, forwarded |-> forwarded, startAddress |-> address])
    IN  IF memoryType \notin DOMAIN memoryDescriptorsByType
        THEN {Respond(s, "ErrorResponsePacket", FALSE, startAddress)}
        ELSE IF memoryType = "FLASH"
        THEN {Respond(s, "ErrorResponsePacket", FALSE, startAddress)}
        ELSE IF Len(buffer) = 0
        THEN {Respond(s, "OkResponsePacket", FALSE, startAddress)}
        ELSE LET addressRange == memoryDescriptorsByType[memoryType].addressRange
                 absoluteAddress == IF memoryType = "EEPROM"
                                    THEN addressRange.startAddress + startAddress
                                    ELSE startAddress
                 memoryStartAddress == IF memoryType = "RAM"
                                       THEN 0
                                       ELSE addressRange.startAddress
             IN  IF OutsideMemoryRange(absoluteAddress, Len(buffer), memoryStartAddress,
                                       addressRange.endAddress)
                 THEN {Respond(s, "ErrorResponsePacket", FALSE, absoluteAddress)}
                 ELSE { IF Ok(t)
                        THEN Respond(t, "OkResponsePacket", TRUE, absoluteAddress)
                        ELSE Respond(Caught(t), "ErrorResponsePacket", TRUE, absoluteAddress) :
                            t \in Call("writeMemory",
                                        Avr8_writeMemory(s, memoryType, absoluteAddress,
                                                         buffer)) }

(***************************************************************************)
(* The GDB server's handlers of the read registers ("g", "p"), monitor      *)
(* reset and detach ("D") packets                                           *)
(***************************************************************************)
\* The exceptions that derive from Exceptions::Exception: all but those of the standard
\* library.
IsException(exc) == exc \notin {"none", "bad_optional_access"}

\* try { S } catch (const Exception&) { writePacket(ErrorResponsePacket()) }
CatchAndRespond(S) ==
    { IF IsException(t.exc) THEN writePacket(Caught(t), "ErrorResponsePacket") ELSE t :
          t \in S }

\* The target register descriptors that the GDB target descriptor maps to GDB register
\* numbers: a general purpose register, the stack pointer and the program counter.
targetRegisterDescriptorsByGdbNumber ==
    [n \in 0 .. 2 |->
        CASE n = 0 -> TargetRegisterDescriptor("GENERAL_PURPOSE_REGISTER", TRUE, 0, 1)
          [] n = 1 -> TargetRegisterDescriptor("STACK_POINTER", TRUE, 2, 2)
          [] OTHER -> TargetRegisterDescriptor("PROGRAM_COUNTER", FALSE, 0, 4)]

\* getRegisterNumberFromTargetRegisterDescriptor: the set of the number, empty for
\* std::nullopt. Two descriptors are equal when their type and start address are.
getRegisterNumberFromTargetRegisterDescriptor(descriptor) ==
    { n \in DOMAIN targetRegisterDescriptorsByGdbNumber :
          LET mapped == targetRegisterDescriptorsByGdbNumber[n]
          IN  /\ mapped.type = descriptor.type
              /\ mapped.hasStartAddress = descriptor.hasStartAddress
              /\ mapped.startAddress = descriptor.startAddress }

\* ReadRegisters::handle for the register of a number ("p"), or for all the mapped
\* registers ("g"); the optional registerNumber is the set of the number, or the empty
\* set.
ReadRegisters_handle(s, registerNumber) ==
    LET descriptors == IF registerNumber # {}
                       THEN { targetRegisterDescriptorsByGdbNumber[n] : n \in registerNumber }
                       ELSE { targetRegisterDescriptorsByGdbNumber[n] :
                                  n \in DOMAIN targetRegisterDescriptorsByGdbNumber }
        Respond(t) ==
            IF \E reg \in t.ret :
                   getRegisterNumberFromTargetRegisterDescriptor(reg.descriptor) = {}
            THEN Throw(t, "bad_optional_access")
            ELSE writePacket(t, "ResponsePacket")
    IN  CatchAndRespond(Then(Call("readRegisters", Avr8_readRegisters(s, descriptors)),
                             LAMBDA t : {Respond(t)}))

\* ResetTarget::handle with the reset left outside the try block.
ResetTarget_handleWithoutCatch(s) ==
    Then(Call("resetTarget", reset(s)), LAMBDA t : {writePacket(t, "ResponsePacket")})

\* ResetTarget::handle
ResetTarget_handle(s) ==
    CatchAndRespond(Then(Call("resetTarget", reset(s)),
                         LAMBDA t : {writePacket(t, "ResponsePacket")}))

\* Detach::handle: the target controller is suspended, or fails to be, when Bloom is
\* managed by CLion.
Detach_handle(s, isManagedByClion) ==
    CatchAndRespond(Then(IF isManagedByClion
                         THEN Call("suspendTargetController", {s, Throw(s, "Exception")})
                         ELSE {s},
                         LAMBDA t : {writePacket(t, "OkResponsePacket")}))

(***************************************************************************)
(* Avr8: fuse management                                                    *)
(***************************************************************************)
\* ispDeviceId != this->id
SignatureMatches(deviceId) == deviceId = "TD_SIGNATURE"

\* (spienFuseByte & spienFuseBitsDescriptor->bitMask) != 0, negated
SpienProgrammed(spienFuseByte, bitMask) == BitAnd(spienFuseByte, bitMask) = {}

\* The JTAGEN check with the polarity of the bit confused: a bit at 1 passes.
JtagenProgrammedInverted(jtagenFuseByteValue, bitMask) ==
    BitAnd(BitNot(jtagenFuseByteValue), bitMask) = {}

\* (jtagenFuseByteValue & jtagenFuseBitsDescriptor->bitMask) != 0, negated
JtagenProgrammed(jtagenFuseByteValue, bitMask) == BitAnd(jtagenFuseByteValue, bitMask) = {}

\* The comparison without its negation: static_cast<bool>(fuseByte & bitMask) == enable.
AlreadySetUnnegated(fuseByte, bitMask, enable) == (BitAnd(fuseByte, bitMask) # {}) = enable

\* !static_cast<bool>(fuseByte & bitMask) == enable
AlreadySet(fuseByte, bitMask, enable) == (BitAnd(fuseByte, bitMask) = {}) = enable

\* The lock bit check with the polarity of the bits confused: any bit at 1 passes.
LockBitsClearedAnyBit(lockBitByte) == lockBitByte # {}

\* lockBitByte != 0xFF, negated
LockBitsCleared(lockBitByte) == lockBitByte = Byte0xFF

\* The verification with its comparison inverted.
DwenFuseVerifiedInverted(readValue, newValue) == readValue # newValue

\* readFuse(dwenFuseBitsDescriptor->fuseType).value != newFuse.value, negated
DwenFuseVerified(readValue, newValue) == readValue = newValue

\* The new fuse byte made from an erased byte, not from the byte read.
NewFuseValueOfErasedByte(fuseByte, bitMask, enable) ==
    IF enable THEN BitNot(bitMask) ELSE Byte0xFF

\* (enable) ? fuseByte & ~bitMask : fuseByte | bitMask
NewFuseValue(fuseByte, bitMask, enable) ==
    IF enable THEN BitAnd(fuseByte, BitNot(bitMask)) ELSE BitOr(fuseByte, bitMask)

\* The try block of Avr8::updateDwenFuseBit.
UpdateDwenFuseBitBody(s, enable) ==
    LET dwen == config.layout.dwen
        spien == config.layout.spien
        AfterRead(t, dwenFuseByte, spienFuseByte) ==
            IF ~SpienProgrammed(spienFuseByte, spien.bitMask)
            THEN {Throw(t, "Exception")}
            ELSE IF AlreadySet(dwenFuseByte, dwen.bitMask, enable)
            THEN ispDeactivate(t)
            ELSE Then(ispReadLockBitByte(t),
                      LAMBDA u :
                          IF ~LockBitsCleared(u.ret)
                          THEN {Throw(u, "Exception")}
                          ELSE LET newFuse == NewFuseValue(dwenFuseByte, dwen.bitMask, enable)
                               IN  Then(Then(ispProgramFuse(u, dwen.fuseType, newFuse),
                                             LAMBDA v : ispReadFuse(v, dwen.fuseType)),
                                        LAMBDA v :
                                            IF ~DwenFuseVerified(v.ret, newFuse)
                                            THEN {Throw(v, "Exception")}
                                            ELSE ispDeactivate(v)))
    IN  Then(ispGetDeviceId(s),
             LAMBDA t :
                 IF ~SignatureMatches(t.ret)
                 THEN {Throw(t, "Exception")}
                 ELSE Then(ispReadFuse(t, dwen.fuseType),
                           LAMBDA u :
                               IF spien.fuseType = dwen.fuseType
                               THEN AfterRead(u, u.ret, u.ret)
                               ELSE Then(ispReadFuse(u, spien.fuseType),
                                         LAMBDA v : AfterRead(v, u.ret, v.ret))))

\* Avr8::updateDwenFuseBit
updateDwenFuseBit(s, enable) ==
    Call("updateDwenFuseBit",
         IF \/ ~config.hasIspInterface
            \/ ~config.hasTargetDescription
         THEN {Throw(Enter(s, "updateDwenFuseBit"), "Exception")}
         ELSE Then(ispActivate(Enter(s, "updateDwenFuseBit")),
                   LAMBDA t : Catch(UpdateDwenFuseBitBody(t, enable),
                                    LAMBDA u : Then(ispDeactivate(Caught(u)),
                                                    LAMBDA v : {Throw(v, "Exception")}))))

\* The try block of Avr8::updateOcdenFuseBit.
UpdateOcdenFuseBitBody(s, enable) ==
    LET ocden == config.layout.ocden
        jtagen == config.layout.jtagen
        AfterRead(t, ocdenFuseByteValue, jtagenFuseByteValue) ==
            IF ~JtagenProgrammed(jtagenFuseByteValue, jtagen.bitMask)
            THEN {Throw(t, "Exception")}
            ELSE IF AlreadySet(ocdenFuseByteValue, ocden.bitMask, enable)
            THEN Avr8_disableProgrammingMode(t)
            ELSE LET newValue == NewFuseValue(ocdenFuseByteValue, ocden.bitMask, enable)
                 IN  Then(Then(writeMemoryFuses(t, ocden.fuseType, newValue),
                               LAMBDA u : readMemoryFuses(u, ocden.fuseType)),
                          LAMBDA u :
                              IF u.ret # newValue
                              THEN {Throw(u, "Exception")}
                              ELSE Avr8_disableProgrammingMode(u))
    IN  Then(Then(Avr8_enableProgrammingMode(s),
                  LAMBDA t : readMemoryFuses(t, ocden.fuseType)),
             LAMBDA t :
                 IF jtagen.fuseType = ocden.fuseType
                 THEN AfterRead(t, t.ret, t.ret)
                 ELSE Then(readMemoryFuses(t, jtagen.fuseType),
                           LAMBDA u : AfterRead(u, t.ret, u.ret)))

\* Avr8::updateOcdenFuseBit
updateOcdenFuseBit(s, enable) ==
    Call("updateOcdenFuseBit",
         IF ~config.hasTargetDescription
         THEN {Throw(Enter(s, "updateOcdenFuseBit"), "Exception")}
         ELSE Then(getDeviceId(Enter(s, "updateOcdenFuseBit")),
                   LAMBDA t :
                       IF ~SignatureMatches(t.ret)
                       THEN {Throw(t, "Exception")}
                       ELSE Catch(UpdateOcdenFuseBitBody(t, enable),
                                  LAMBDA u : Then(Avr8_disableProgrammingMode(Caught(u)),
                                                  LAMBDA v : {Throw(v, "Exception")}))))

(***************************************************************************)
(* Avr8: configuration                                                      *)
(***************************************************************************)
\* Avr8::preActivationConfigure: without a family, JTAG and UPDI are refused; otherwise
\* the debug interface is configured, which resolves its configuration variant.
Avr8_preActivationConfigure(s) ==
    LET warned(u, condition, message) ==
            IF condition THEN Log(u, <<"Logger::warning", message>>) ELSE u
    IN  IF config.family = "NONE" /\ config.physicalInterface \in {"JTAG", "UPDI"}
        THEN {Throw(s, "InvalidConfig")}
        ELSE {Log(warned(warned(s, /\ config.manageDwenFuseBit
                                   /\ ~config.hasIspInterface
                                   /\ config.physicalInterface = "DEBUG_WIRE",
                                "no ISP interface"),
                         config.manageOcdenFuseBit /\ config.physicalInterface # "JTAG",
                         "manageOcdenFuseBit ignored"),
                  <<"configure", configVariant>>)}

(***************************************************************************)
(* Avr8: activation and deactivation                                        *)
(***************************************************************************)
\* TargetPowerManagementInterface::disableTargetPower / enableTargetPower
cycleTargetPower(s) ==
    Then(IspCall(s, "power.disableTargetPower"),
         LAMBDA t : IspCall(t, "power.enableTargetPower"))

\* The handler retrying once more when the retry fails as the first attempt did.
DebugWireActivationFailedRetryingAgain(s) ==
    IF ~config.manageDwenFuseBit
    THEN {Throw(s, "TargetOperationFailure")}
    ELSE Then(Catch(Then(updateDwenFuseBit(s, TRUE),
                         LAMBDA t : IF config.cycleTargetPowerPostDwenUpdate
                                    THEN cycleTargetPower(t)
                                    ELSE {t}),
                    LAMBDA t : {Throw(Caught(t), "Exception")}),
              LAMBDA t : UNION { IF u.exc = "DebugWirePhysicalInterfaceError"
                                 THEN activate(Caught(u))
                                 ELSE {u} : u \in activate(t) })

\* The handler of DebugWirePhysicalInterfaceError in Avr8::activate.
DebugWireActivationFailed(s) ==
    IF ~config.manageDwenFuseBit
    THEN {Throw(s, "TargetOperationFailure")}
    ELSE Then(Catch(Then(updateDwenFuseBit(s, TRUE),
                         LAMBDA t : IF config.cycleTargetPowerPostDwenUpdate
                                    THEN cycleTargetPower(t)
                                    ELSE {t}),
                    LAMBDA t : {Throw(Caught(t), "Exception")}),
              activate)

\* Avr8::activate
Avr8_activate(s) ==
    IF s.activated
    THEN {s}
    ELSE Then(Then(Then(Then(init(s),
                             LAMBDA t : IF config.hasTargetDescription
                                        THEN setTargetParameters(t)
                                        ELSE {t}),
                        LAMBDA t :
                            UNION { IF u.exc = "DebugWirePhysicalInterfaceError"
                                    THEN DebugWireActivationFailed(Caught(u))
                                    ELSE {u} : u \in activate(t) }),
                   LAMBDA t : IF /\ config.physicalInterface = "JTAG"
                                 /\ config.manageOcdenFuseBit
                              THEN updateOcdenFuseBit(t, TRUE)
                              ELSE {t}),
              LAMBDA t : reset([t EXCEPT !.activated = TRUE]))

\* A deactivation that goes on when the breakpoints could not be cleared.
Avr8_deactivateIgnoringBreakpoints(s) ==
    Catch(Then(Then(Then(stop(s), LAMBDA t : Catch(clearAllBreakpoints(t),
                                                   LAMBDA u : {Caught(u)})),
                    LAMBDA t : IF /\ config.physicalInterface = "JTAG"
                                  /\ config.manageOcdenFuseBit
                               THEN updateOcdenFuseBit(t, FALSE)
                               ELSE deactivate(t)),
               LAMBDA t : {[t EXCEPT !.activated = FALSE]}),
          LAMBDA t : {Log(Caught(t), <<"Logger::error", "Failed to deactivate AVR8 target">>)})

\* Avr8::deactivate
Avr8_deactivate(s) ==
    Catch(Then(Then(Then(stop(s), clearAllBreakpoints),
                    LAMBDA t : IF /\ config.physicalInterface = "JTAG"
                                  /\ config.manageOcdenFuseBit
                               THEN updateOcdenFuseBit(t, FALSE)
                               ELSE deactivate(t)),
               LAMBDA t : {[t EXCEPT !.activated = FALSE]}),
          LAMBDA t : {Log(Caught(t), <<"Logger::error", "Failed to deactivate AVR8 target">>)})

(***************************************************************************)
(* Command ids.  Threads construct commands concurrently; the constructor   *)
(* of a command initialises its id with ++(Command::lastCommandId).         *)
(***************************************************************************)
Threads == 1 .. MaxThreads

\* A thread that is not constructing a command.
NotConstructing == [state |-> "idle", id |-> 0]

\* No command has been constructed: the static initialiser of lastCommandId.
NoCommands ==
    /\ lastCommandId = 0
    /\ constructing = [thread \in Threads |-> NotConstructing]
    /\ commandIds = <<>>

\* ++lastCommandId on an int that is not atomic: the value is loaded in one step and the
\* incremented value is stored in another.
PreIncrementNotAtomic(thread) ==
    IF constructing[thread].state = "idle"
    THEN /\ constructing' = [constructing EXCEPT ![thread] =
                                 [state |-> "loaded", id |-> lastCommandId]]
         /\ UNCHANGED <<lastCommandId, commandIds>>
    ELSE /\ lastCommandId' = constructing[thread].id + 1
         /\ commandIds' = Append(commandIds, constructing[thread].id + 1)
         /\ constructing' = [constructing EXCEPT ![thread] =
                                 [state |-> "assigned", id |-> constructing[thread].id + 1]]

\* ++(Command::lastCommandId) on the std::atomic: one step that increments the counter
\* and yields the incremented value.
PreIncrement(thread) ==
    /\ lastCommandId' = lastCommandId + 1
    /\ commandIds' = Append(commandIds, lastCommandId + 1)
    /\ constructing' = [constructing EXCEPT ![thread] =
                            [state |-> "assigned", id |-> lastCommandId + 1]]

(***************************************************************************)
(* The state machine                                                        *)
(***************************************************************************)
\* The record of a memory request: what was asked (of the facade, of the packet handler
\* or of the alignment functions) and what came back.
NoRequest ==
    [memoryType |-> "NONE", startAddress |-> 0, bytes |-> 0, buffer |-> <<>>,
     data |-> <<>>, response |-> "none", forwarded |-> FALSE,
     descriptors |-> {}, registers |-> {}, after |-> "idle",
     alignedStartAddress |-> 0, offsetWrapped |-> FALSE, alignedBytes |-> 0,
     excludedAddressRanges |-> {}]

\* The last write the facade accepted: none yet, or none since a write that failed.
NoWrite ==
    [memoryType |-> "NONE", startAddress |-> 0, buffer |-> <<>>, session |-> FALSE,
     count |-> 0]

Init ==
    /\ config \in Configs
    /\ fuses \in InitialFuses(config)
    /\ activated = FALSE
    /\ progModeEnabled = FALSE
    /\ targetState = "UNKNOWN"
    /\ physicalInterfaceActivated = FALSE
    /\ targetAttached = FALSE
    /\ programmingModeEnabled = FALSE
    /\ ispActive = FALSE
    /\ events = <<>>
    /\ op = "idle"
    /\ outcome = "none"
    /\ stateBefore = "UNKNOWN"
    /\ fuseAccess = <<>>
    /\ trace = <<>>
    /\ memory = InitialMemory
    /\ memAccess = <<>>
    /\ request = NoRequest
    /\ written = NoWrite
    /\ programCounter = NoProgramCounter
    /\ NoCommands

\* The operation `name` ends in state t, with the record `req` of its memory request and
\* with `wr` the last accepted write.
CommitRequest(name, t, req, wr) ==
    /\ config' = config
    /\ activated' = t.activated
    /\ progModeEnabled' = t.progModeEnabled
    /\ targetState' = t.targetState
    /\ physicalInterfaceActivated' = t.physicalInterfaceActivated
    /\ targetAttached' = t.targetAttached
    /\ programmingModeEnabled' = t.programmingModeEnabled
    /\ ispActive' = t.ispActive
    /\ fuses' = t.fuses
    /\ events' = t.events
    /\ op' = name
    /\ outcome' = t.exc
    /\ stateBefore' = targetState
    /\ fuseAccess' = t.fuseAccess
    /\ trace' = t.trace
    /\ memory' = t.memory
    /\ memAccess' = t.memAccess
    /\ request' = req
    /\ written' = wr
    /\ programCounter' = t.programCounter
    /\ UNCHANGED <<lastCommandId, constructing, commandIds>>

\* The programming-mode session of the last accepted write lasts while the facade and the
\* debug interface both stay in programming mode.
SessionContinued(t) ==
    [written EXCEPT !.session = @ /\ t.progModeEnabled /\ t.programmingModeEnabled]

\* An operation that is no memory request ends in state t.
Commit(name, t) == CommitRequest(name, t, NoRequest, SessionContinued(t))

\* No operation is in progress and the result of the last one has been taken.
Idle == op = "idle"

Activate == Idle /\ \E t \in Avr8_activate(Cur) : Commit("activate", t)

Deactivate == Idle /\ activated /\ \E t \in Avr8_deactivate(Cur) : Commit("deactivate", t)

Stop == Idle /\ activated /\ \E t \in stop(Cur) : Commit("stop", t)

Run == Idle /\ activated /\ \E t \in run(Cur) : Commit("run", t)

RunTo == Idle /\ activated /\ \E t \in runTo(Cur) : Commit("runTo", t)

Step == Idle /\ activated /\ \E t \in step(Cur) : Commit("step", t)

Reset == Idle /\ activated /\ \E t \in reset(Cur) : Commit("reset", t)

GetState == Idle /\ activated /\ Commit("getState", getTargetState(Cur))

EnableProgrammingMode ==
    /\ Idle
    /\ activated
    /\ \E t \in Avr8_enableProgrammingMode(Cur) : Commit("enableProgrammingMode", t)

DisableProgrammingMode ==
    /\ Idle
    /\ activated
    /\ \E t \in Avr8_disableProgrammingMode(Cur) : Commit("disableProgrammingMode", t)

\* The target produces an event, which the probe queues.
ProbeEvent ==
    /\ Idle
    /\ Len(events) < MaxEvents
    /\ \E e \in {"BREAK", "OTHER"} :
           Commit("idle", [Cur EXCEPT !.events = Append(@, e)])

\* The caller takes the result of the operation: its record is dropped.
TakeResult ==
    /\ ~Idle
    /\ Commit("idle", Cur)

Next ==
    \/ Activate
    \/ Deactivate
    \/ Stop
    \/ Run
    \/ RunTo
    \/ Step
    \/ Reset
    \/ GetState
    \/ EnableProgrammingMode
    \/ DisableProgrammingMode
    \/ ProbeEvent
    \/ TakeResult

Spec == Init /\ [][Next]_vars

(***************************************************************************)
(* Memory access on an activated target                                    *)
(***************************************************************************)
\* One configuration for each configuration variant, none of them managing fuses; the
\* JTAG target is activated again when it leaves programming mode.
MemoryConfigs ==
    { BaseConfig,
      [JtagBase EXCEPT !.manageOcdenFuseBit = FALSE,
                       !.reactivateJtagTargetPostProgrammingMode = TRUE],
      [BaseConfig EXCEPT !.family = "XMEGA", !.physicalInterface = "PDI"],
      [BaseConfig EXCEPT !.family = "DA", !.physicalInterface = "UPDI"] }

\* The target as a successful Avr8::activate leaves it.
MemoryInit ==
    /\ config \in MemoryConfigs
    /\ fuses \in InitialFuses(config)
    /\ activated = TRUE
    /\ progModeEnabled = FALSE
    /\ targetState = "STOPPED"
    /\ physicalInterfaceActivated = TRUE
    /\ targetAttached = TRUE
    /\ programmingModeEnabled = FALSE
    /\ ispActive = FALSE
    /\ events = <<>>
    /\ op = "idle"
    /\ outcome = "none"
    /\ stateBefore = "UNKNOWN"
    /\ fuseAccess = <<>>
    /\ trace = <<>>
    /\ memory = InitialMemory
    /\ memAccess = <<>>
    /\ request = NoRequest
    /\ written = NoWrite
    /\ programCounter = NoProgramCounter
    /\ NoCommands

MemoryTypes == {"RAM", "FLASH", "EEPROM"}

\* The addresses of a memory: those of its descriptor and, for RAM, the mapped registers
\* below.
Addresses(memoryType) ==
    (IF memoryType = "RAM" THEN 0 ELSE memoryDescriptorsByType[memoryType].addressRange.startAddress)
        .. memoryDescriptorsByType[memoryType].addressRange.endAddress

\* The buffer of n bytes that a request writes: the byte values 1 to n.
Buffer(n) == [i \in 1 .. n |-> i]

\* The last accepted write after a write that ended in state t.
WrittenBy(t, memoryType, startAddress, buffer) ==
    IF Ok(t)
    THEN [memoryType |-> memoryType, startAddress |-> startAddress, buffer |-> buffer,
          session |-> t.progModeEnabled /\ t.programmingModeEnabled,
          count |-> written.count + 1]
    ELSE [NoWrite EXCEPT !.count = written.count + 1]

\* The memory of the target is read before anything is written to it.
ReadMemory ==
    /\ Idle
    /\ activated
    /\ written.count = 0
    /\ \E memoryType \in MemoryTypes, bytes \in 0 .. MaxLen :
       \E startAddress \in Addresses(memoryType) :
       \E t \in Avr8_readMemory(Cur, memoryType, startAddress, bytes) :
           CommitRequest("readMemory", t,
                         [NoRequest EXCEPT !.memoryType = memoryType,
                                           !.startAddress = startAddress,
                                           !.bytes = bytes,
                                           !.data = IF Ok(t) THEN t.ret ELSE <<>>],
                         written)

\* What the last accepted write wrote is read back: the same memory type, start address
\* and length.
ReadBack ==
    /\ Idle
    /\ activated
    /\ written.memoryType # "NONE"
    /\ \E t \in Avr8_readMemory(Cur, written.memoryType, written.startAddress,
                                 Len(written.buffer)) :
           CommitRequest("readBack", t,
                         [NoRequest EXCEPT !.memoryType = written.memoryType,
                                           !.startAddress = written.startAddress,
                                           !.bytes = Len(written.buffer),
                                           !.data = IF Ok(t) THEN t.ret ELSE <<>>],
                         written)

WriteMemory ==
    /\ Idle
    /\ activated
    /\ written.count < MaxWrites
    /\ \E memoryType \in MemoryTypes, bytes \in 0 .. MaxLen :
       \E startAddress \in Addresses(memoryType) :
       \E t \in Avr8_writeMemory(Cur, memoryType, startAddress, Buffer(bytes)) :
           CommitRequest("writeMemory", t,
                         [NoRequest EXCEPT !.memoryType = memoryType,
                                           !.startAddress = startAddress,
                                           !.bytes = bytes,
                                           !.buffer = Buffer(bytes)],
                         WrittenBy(t, memoryType, startAddress, Buffer(bytes)))

\* The debugger sends an "M" packet; EEPROM addresses are relative in it.
HandleWriteMemory ==
    /\ Idle
    /\ activated
    /\ written.count < MaxWrites
    /\ \E memoryType \in MemoryTypes \cup {"OTHER"}, bytes \in 0 .. MaxLen :
       \E startAddress \in 0 .. memoryDescriptorsByType.FLASH.addressRange.endAddress :
       \E t \in WriteMemory_handle(Cur, memoryType, startAddress, Buffer(bytes)) :
           CommitRequest("WriteMemory::handle", t,
                         [NoRequest EXCEPT !.memoryType = memoryType,
                                           !.startAddress = t.ret.startAddress,
                                           !.bytes = bytes,
                                           !.buffer = Buffer(bytes),
                                           !.response = t.ret.response,
                                           !.forwarded = t.ret.forwarded],
                         IF t.ret.forwarded
                         THEN WrittenBy([t EXCEPT !.exc = IF t.ret.response = "OkResponsePacket"
                                                          THEN "none"
                                                          ELSE "Exception"],
                                        memoryType, t.ret.startAddress, Buffer(bytes))
                         ELSE written)

MemoryNext ==
    \/ ReadMemory
    \/ WriteMemory
    \/ ReadBack
    \/ EnableProgrammingMode
    \/ DisableProgrammingMode
    \/ TakeResult

MemorySpec == MemoryInit /\ [][MemoryNext]_vars

\* The memory writes of a debugger that writes with "M" packets.
\* The registers are read for a "p" packet with the number of a mapped register, or for
\* a "g" packet.
HandleReadRegisters ==
    /\ Idle
    /\ activated
    /\ \E registerNumber \in
              {{}} \cup { {n} : n \in DOMAIN targetRegisterDescriptorsByGdbNumber } :
       \E t \in ReadRegisters_handle(Cur, registerNumber) :
           Commit("ReadRegisters::handle", t)

HandleResetTarget ==
    /\ Idle
    /\ activated
    /\ \E t \in ResetTarget_handle(Cur) : Commit("ResetTarget::handle", t)

HandleDetach ==
    /\ Idle
    /\ activated
    /\ \E isManagedByClion \in BOOLEAN :
       \E t \in Detach_handle(Cur, isManagedByClion) : Commit("Detach::handle", t)

PacketNext ==
    \/ HandleWriteMemory
    \/ HandleReadRegisters
    \/ HandleResetTarget
    \/ HandleDetach
    \/ EnableProgrammingMode
    \/ DisableProgrammingMode
    \/ TakeResult

PacketSpec == MemoryInit /\ [][PacketNext]_vars

(***************************************************************************)
(* Alignment of a memory request                                           *)
(***************************************************************************)
\* Addresses and lengths to align: small ones, and ones from 2^24 and from 2^25 on,
\* where not every integer is a float.
AlignValues == { base + i : base \in {0, 16777216, 33554432}, i \in 0 .. MaxOffset }

\* A request of `bytes` bytes at `startAddress` of an Avr8MemoryType is to be aligned.
AlignInit ==
    /\ MemoryInit
    /\ op = "idle"

\* readMemory and writeMemory align the request: the start address, then the length
\* grown by the offset of the start address.  The offset is an unsigned difference; it
\* wraps when the aligned address lies above the address.
AlignRequest ==
    /\ Idle
    /\ \E type \in Avr8MemoryTypes, startAddress \in AlignValues, bytes \in AlignValues :
           LET alignedStartAddress == alignMemoryAddress(type, startAddress)
               offsetWrapped == alignedStartAddress > startAddress
           IN  CommitRequest("align", Cur,
                             [NoRequest EXCEPT
                                 !.memoryType = type,
                                 !.startAddress = startAddress,
                                 !.bytes = bytes,
                                 !.alignedStartAddress = alignedStartAddress,
                                 !.offsetWrapped = offsetWrapped,
                                 !.alignedBytes =
                                     IF offsetWrapped
                                     THEN 0
                                     ELSE alignMemoryBytes(
                                              type, bytes + (startAddress - alignedStartAddress))],
                             written)

AlignNext ==
    \/ AlignRequest
    \/ TakeResult

AlignSpec == AlignInit /\ [][AlignNext]_vars

(***************************************************************************)
(* Configuration of a target that is not activated, for every family (none  *)
(* when the target was named ambiguously) and every physical interface      *)
(***************************************************************************)
VariantInit ==
    /\ config \in { [BaseConfig EXCEPT !.family = family,
                                       !.physicalInterface = physicalInterface,
                                       !.hasTargetDescription = (family # "NONE"),
                                       !.manageDwenFuseBit = manageDwenFuseBit,
                                       !.manageOcdenFuseBit = manageOcdenFuseBit] :
                        family \in {"MEGA", "TINY", "XMEGA", "DA", "DB", "DD", "EA", "NONE"},
                        physicalInterface \in {"JTAG", "DEBUG_WIRE", "PDI", "UPDI", "ISP"},
                        manageDwenFuseBit \in BOOLEAN,
                        manageOcdenFuseBit \in BOOLEAN }
    /\ fuses = [LOW |-> Byte0xFF, HIGH |-> Byte0xFF]
    /\ activated = FALSE
    /\ progModeEnabled = FALSE
    /\ targetState = "UNKNOWN"
    /\ physicalInterfaceActivated = FALSE
    /\ targetAttached = FALSE
    /\ programmingModeEnabled = FALSE
    /\ ispActive = FALSE
    /\ events = <<>>
    /\ op = "idle"
    /\ outcome = "none"
    /\ stateBefore = "UNKNOWN"
    /\ fuseAccess = <<>>
    /\ trace = <<>>
    /\ memory = InitialMemory
    /\ memAccess = <<>>
    /\ request = NoRequest
    /\ written = NoWrite
    /\ programCounter = NoProgramCounter
    /\ NoCommands

\* Avr8::preActivationConfigure; the response is the configuration variant the debug
\* interface is left with ("unset" when configure() was not reached).
PreActivationConfigure ==
    /\ Idle
    /\ \E t \in Avr8_preActivationConfigure(Cur) :
           CommitRequest("preActivationConfigure", t,
                         [NoRequest EXCEPT !.response =
                              IF Ok(t) THEN configVariant ELSE "unset"],
                         written)

\* EdbgAvr8Interface::configure alone.
Configure ==
    /\ Idle
    /\ CommitRequest("configure", Log(Cur, <<"configure", configVariant>>),
                     [NoRequest EXCEPT !.response = configVariant], written)

VariantNext ==
    \/ PreActivationConfigure
    \/ Configure
    \/ TakeResult

VariantSpec == VariantInit /\ [][VariantNext]_vars

(***************************************************************************)
(* The program counter and the registers of an activated target            *)
(***************************************************************************)
\* The target as a successful Avr8::activate leaves it, stopped or running since, with a
\* debug tool that uses the masked read or avoids it.
RegisterInit ==
    /\ config \in { [c EXCEPT !.avoidMaskedMemoryRead = avoid] :
                        c \in MemoryConfigs, avoid \in BOOLEAN }
    /\ fuses \in InitialFuses(config)
    /\ activated = TRUE
    /\ progModeEnabled = FALSE
    /\ targetState \in {"STOPPED", "RUNNING"}
    /\ physicalInterfaceActivated = TRUE
    /\ targetAttached = TRUE
    /\ programmingModeEnabled = FALSE
    /\ ispActive = FALSE
    /\ events = <<>>
    /\ op = "idle"
    /\ outcome = "none"
    /\ stateBefore = "UNKNOWN"
    /\ fuseAccess = <<>>
    /\ trace = <<>>
    /\ memory = InitialMemory
    /\ memAccess = <<>>
    /\ request = NoRequest
    /\ written = NoWrite
    /\ programCounter = NoProgramCounter
    /\ NoCommands

\* The program counter is set to a byte address: of the flash or beyond it, even or odd.
\* Avr8::setProgramCounter and Avr8::getProgramCounter pass the call to the debug
\* interface.
SetProgramCounter ==
    /\ Idle
    /\ activated
    /\ \E address \in 0 .. (memoryDescriptorsByType.FLASH.addressRange.endAddress + 2) :
       \E t \in setProgramCounter(Cur, address) :
           CommitRequest("setProgramCounter", t,
                         [NoRequest EXCEPT !.startAddress = address], written)

\* The program counter is read, be it straight after it was set; the record holds the
\* byte address returned as the start address, and the operation that the read came
\* after.
GetProgramCounter ==
    /\ Idle \/ op = "setProgramCounter"
    /\ activated
    /\ \E t \in getProgramCounter(Cur) :
           CommitRequest("getProgramCounter", t,
                         [NoRequest EXCEPT !.startAddress = IF Ok(t) THEN t.ret ELSE 0,
                                           !.after = op],
                         written)

ReadRegisters ==
    /\ Idle
    /\ activated
    /\ \E descriptors \in SUBSET targetRegisterDescriptors :
       \E t \in Avr8_readRegisters(Cur, descriptors) :
           CommitRequest("readRegisters", t,
                         [NoRequest EXCEPT !.descriptors = descriptors,
                                           !.registers = IF Ok(t) THEN t.ret ELSE {}],
                         written)

RegisterNext ==
    \/ SetProgramCounter
    \/ GetProgramCounter
    \/ ReadRegisters
    \/ Run
    \/ ProbeEvent
    \/ TakeResult

RegisterSpec == RegisterInit /\ [][RegisterNext]_vars

(***************************************************************************)
(* Register writes to an activated target                                  *)
(***************************************************************************)
\* The register descriptors of a write request: those of the target, the descriptor of
\* the program counter with the size that Avr8::loadTargetRegisterDescriptors gives it.
WritableRegisterDescriptors ==
    { d \in targetRegisterDescriptors : d.type # "PROGRAM_COUNTER" }
        \cup { TargetRegisterDescriptor("PROGRAM_COUNTER", FALSE, 0, 4) }

\* One or two registers are written, each with a value of 0 to MaxLen bytes.
WriteRegisters ==
    /\ Idle
    /\ activated
    /\ written.count < MaxWrites
    /\ \E count \in 1 .. 2 :
       \E descriptors \in [1 .. count -> WritableRegisterDescriptors],
          sizes \in [1 .. count -> 0 .. MaxLen] :
       LET registers == [i \in 1 .. count |->
                            [descriptor |-> descriptors[i], value |-> Buffer(sizes[i])]]
       IN  \E t \in Avr8_writeRegisters(Cur, registers) :
               CommitRequest("writeRegisters", t,
                             [NoRequest EXCEPT !.registers = registers],
                             [NoWrite EXCEPT !.count = written.count + 1])

RegisterWriteNext ==
    \/ WriteRegisters
    \/ TakeResult

RegisterWriteSpec == RegisterInit /\ [][RegisterWriteNext]_vars

(***************************************************************************)
(* Threads constructing commands                                           *)
(***************************************************************************)
\* The variables of the target and of the debug interface.
targetVars ==
    <<config, activated, progModeEnabled, targetState, physicalInterfaceActivated,
      targetAttached, programmingModeEnabled, ispActive, fuses, events,
      op, outcome, stateBefore, fuseAccess, trace, memory, memAccess, request, written,
      programCounter>>

\* A thread begins to construct a command: the initialiser of the id increments the
\* counter.
AssignId(thread) ==
    /\ constructing[thread].state # "assigned"
    /\ lastCommandId < MaxCommands
    /\ PreIncrement(thread)
    /\ UNCHANGED targetVars

\* The constructor returns: the command holds the id.
FinishConstruction(thread) ==
    /\ constructing[thread].state = "assigned"
    /\ constructing' = [constructing EXCEPT ![thread] = NotConstructing]
    /\ UNCHANGED <<lastCommandId, commandIds>>
    /\ UNCHANGED targetVars

CommandNext ==
    \/ \E thread \in Threads : AssignId(thread)
    \/ \E thread \in Threads : FinishConstruction(thread)

CommandSpec == MemoryInit /\ [][CommandNext]_vars

(***************************************************************************)
(* Reads with excluded address ranges from a programmed target             *)
(***************************************************************************)
\* The activated and stopped target, with a debug tool that uses the masked read or avoids
\* it, and with memories that hold a different value at each address.
MaskedReadInit ==
    /\ config \in { [c EXCEPT !.avoidMaskedMemoryRead = avoid] :
                        c \in MemoryConfigs, avoid \in BOOLEAN }
    /\ fuses \in InitialFuses(config)
    /\ activated = TRUE
    /\ progModeEnabled = FALSE
    /\ targetState = "STOPPED"
    /\ physicalInterfaceActivated = TRUE
    /\ targetAttached = TRUE
    /\ programmingModeEnabled = FALSE
    /\ ispActive = FALSE
    /\ events = <<>>
    /\ op = "idle"
    /\ outcome = "none"
    /\ stateBefore = "UNKNOWN"
    /\ fuseAccess = <<>>
    /\ trace = <<>>
    /\ memory = [m \in DOMAIN InitialMemory |->
                    [a \in DOMAIN InitialMemory[m] |-> a + 1]]
    /\ memAccess = <<>>
    /\ request = NoRequest
    /\ written = NoWrite
    /\ programCounter = NoProgramCounter
    /\ NoCommands

\* The address ranges a caller excludes from a read of a memory: up to two ranges of one
\* or two addresses of that memory.
ExcludedAddressRanges(memoryType) ==
    LET ranges == { [startAddress |-> a, endAddress |-> b] :
                        a \in Addresses(memoryType), b \in Addresses(memoryType) }
    IN  { R \in SUBSET { r \in ranges : r.endAddress - r.startAddress \in {0, 1} } :
              Cardinality(R) <= 2 }

\* Avr8::readMemory passes the request, its excluded address ranges included, to the debug
\* interface.
ReadMemoryExcluding ==
    /\ Idle
    /\ activated
    /\ \E memoryType \in MemoryTypes, bytes \in 0 .. MaxLen :
       \E startAddress \in Addresses(memoryType) :
       \E excludedAddressRanges \in ExcludedAddressRanges(memoryType) :
       \E t \in readMemoryExcludingRanges(Cur, memoryType, startAddress, bytes,
                                          excludedAddressRanges) :
           CommitRequest("readMemoryExcluding", t,
                         [NoRequest EXCEPT !.memoryType = memoryType,
                                           !.startAddress = startAddress,
                                           !.bytes = bytes,
                                           !.excludedAddressRanges = excludedAddressRanges,
                                           !.data = IF Ok(t) THEN t.ret ELSE <<>>],
                         written)

MaskedReadNext ==
    \/ ReadMemoryExcluding
    \/ EnableProgrammingMode
    \/ DisableProgrammingMode
    \/ TakeResult

MaskedReadSpec == MaskedReadInit /\ [][MaskedReadNext]_vars

(***************************************************************************)
(* Erasing the memories of a programmed target                             *)
(***************************************************************************)
\* The activated and stopped target, configured to preserve the EEPROM or not, with
\* memories that hold a different value at each address.
EraseInit ==
    /\ config \in { [c EXCEPT !.preserveEeprom = preserve] :
                        c \in MemoryConfigs, preserve \in BOOLEAN }
    /\ fuses \in InitialFuses(config)
    /\ activated = TRUE
    /\ progModeEnabled = FALSE
    /\ targetState = "STOPPED"
    /\ physicalInterfaceActivated = TRUE
    /\ targetAttached = TRUE
    /\ programmingModeEnabled = FALSE
    /\ ispActive = FALSE
    /\ events = <<>>
    /\ op = "idle"
    /\ outcome = "none"
    /\ stateBefore = "UNKNOWN"
    /\ fuseAccess = <<>>
    /\ trace = <<>>
    /\ memory = [m \in DOMAIN InitialMemory |->
                    [a \in DOMAIN InitialMemory[m] |-> a + 1]]
    /\ memAccess = <<>>
    /\ request = NoRequest
    /\ written = NoWrite
    /\ programCounter = NoProgramCounter
    /\ NoCommands

\* A memory is erased; the record holds the EEPROM as it was before.
EraseMemory ==
    /\ Idle
    /\ activated
    /\ \E memoryType \in {"FLASH", "RAM", "EEPROM", "FUSES", "OTHER"} :
       \E t \in Avr8_eraseMemory(Cur, memoryType) :
           CommitRequest("eraseMemory", t,
                         [NoRequest EXCEPT !.memoryType = memoryType,
                                           !.data = [i \in 1 .. targetParameters.eepromSize |->
                                                        memory.EEPROM[i - 1]]],
                         written)

EraseNext ==
    \/ EraseMemory
    \/ EnableProgrammingMode
    \/ DisableProgrammingMode
    \/ TakeResult

EraseSpec == EraseInit /\ [][EraseNext]_vars

(***************************************************************************)
(* What the last operation did, read off its record                        *)
(***************************************************************************)
Range(seq) == { seq[i] : i \in DOMAIN seq }

\* The frame was sent, or the call made, whatever the answer.
Sent(frame) == <<frame, "OK">> \in Range(trace) \/ <<frame, "FAILED">> \in Range(trace)

Entered(procedure) == <<procedure, "enter">> \in Range(trace)
Returned(procedure) == <<procedure, "return">> \in Range(trace)
Threw(procedure) == <<procedure, "throw">> \in Range(trace)

FuseReads(fuseType) ==
    { i \in DOMAIN fuseAccess :
        fuseAccess[i].access = "read" /\ fuseAccess[i].fuseType = fuseType }

FuseWritten == \E i \in DOMAIN fuseAccess : fuseAccess[i].access = "write"

\* The first read of the fuse byte holding `descriptor` showed the bit at 1 (unprogrammed).
FirstReadUnprogrammed(descriptor) ==
    \E i \in FuseReads(descriptor.fuseType) :
        /\ \A j \in FuseReads(descriptor.fuseType) : i <= j
        /\ BitAnd(fuseAccess[i].value, descriptor.bitMask) # {}

FirstReadProgrammed(descriptor) ==
    \E i \in FuseReads(descriptor.fuseType) :
        /\ \A j \in FuseReads(descriptor.fuseType) : i <= j
        /\ BitAnd(fuseAccess[i].value, descriptor.bitMask) = {}

LockBitsReadSet ==
    \E i \in FuseReads("LOCK") : fuseAccess[i].value # Byte0xFF

(***************************************************************************)
(* Fuse update safety                                                      *)
(***************************************************************************)
\* C1: in a DWEN fuse update in which the signature read over ISP is not the expected
\* one, or SPIEN reads unprogrammed, or the lock bit byte read is not 0xFF, programFuse
\* is never called on the ISP interface (and so no fuse byte is written).
NoProgramFuseAfterFailedDwenCheck ==
    (/\ Entered("updateDwenFuseBit")
     /\ \/ <<"isp.signature", "OTHER_SIGNATURE">> \in Range(trace)
        \/ FirstReadUnprogrammed(config.layout.spien)
        \/ LockBitsReadSet)
        => ~Sent("isp.programFuse") /\ ~FuseWritten

\* The deepest of the three checks failed: signature and SPIEN passed, DWEN had to be
\* changed, and the lock bit byte read was not 0xFF.
DwenUpdateStoppedByLockBits ==
    /\ Threw("updateDwenFuseBit")
    /\ <<"isp.signature", "TD_SIGNATURE">> \in Range(trace)
    /\ FirstReadProgrammed(config.layout.spien)
    /\ LockBitsReadSet
    /\ ~Sent("isp.programFuse")

\* C2: in an OCDEN fuse update in which the signature read from the debug interface is
\* not the target description's, or JTAGEN reads unprogrammed, no WriteMemory frame of
\* the FUSES memory type is sent.
NoFuseWriteAfterFailedOcdenCheck ==
    (/\ Entered("updateOcdenFuseBit")
     /\ \/ <<"signature", "OTHER_SIGNATURE">> \in Range(trace)
        \/ FirstReadUnprogrammed(config.layout.jtagen))
        => ~Sent("WriteMemory:FUSES") /\ ~FuseWritten

\* The signature matched and JTAGEN read unprogrammed: the update was abandoned.
OcdenUpdateStoppedByJtagen ==
    /\ Threw("updateOcdenFuseBit")
    /\ <<"signature", "TD_SIGNATURE">> \in Range(trace)
    /\ FirstReadUnprogrammed(config.layout.jtagen)
    /\ ~Sent("WriteMemory:FUSES")


\* The entries of the trace from the entry of `procedure` to its end.
EnterIndex(procedure) == CHOOSE i \in DOMAIN trace : trace[i] = <<procedure, "enter">>

ExitIndex(procedure) ==
    CHOOSE i \in DOMAIN trace : trace[i] \in {<<procedure, "return">>, <<procedure, "throw">>}

Within(procedure) == { i \in DOMAIN trace : EnterIndex(procedure) < i /\ i < ExitIndex(procedure) }

\* Some call or frame of the procedure failed.
FailedWithin(procedure) == \E i \in Within(procedure) : trace[i][2] = "FAILED"

\* The DWEN bit read is already programmed, which is what activate requests.
DwenAlreadySet == Entered("updateDwenFuseBit") /\ FirstReadProgrammed(config.layout.dwen)

\* The OCDEN bit read is already what the operation requests: programmed in activate,
\* unprogrammed in deactivate.
OcdenAlreadySet ==
    /\ Entered("updateOcdenFuseBit")
    /\ \/ op = "activate" /\ FirstReadProgrammed(config.layout.ocden)
       \/ op = "deactivate" /\ FirstReadUnprogrammed(config.layout.ocden)

DwenUpdateReturnedClean ==
    Returned("updateDwenFuseBit") /\ ~FuseWritten /\ ~ispActive

OcdenUpdateReturnedClean ==
    /\ Returned("updateOcdenFuseBit")
    /\ ~FuseWritten
    /\ ~programmingModeEnabled
    /\ ~progModeEnabled

\* C3 as stated: when the DWEN (resp. OCDEN) bit read already has the requested value,
\* the update returns without an error, writes no fuse byte and leaves the ISP interface
\* deactivated (resp. programming mode disabled).  Runs in which a call or frame of the
\* procedure fails are left aside.
AlreadySetReturnsSilently ==
    /\ (DwenAlreadySet /\ ~FailedWithin("updateDwenFuseBit")) => DwenUpdateReturnedClean
    /\ (OcdenAlreadySet /\ ~FailedWithin("updateOcdenFuseBit")) => OcdenUpdateReturnedClean

\* C3 amended: when the bit enabling the live interface (SPIEN resp. JTAGEN) reads
\* programmed and the DWEN (resp. OCDEN) bit read already has the requested value, no
\* fuse byte is written, and unless a call or frame of the procedure fails it returns
\* without an error, the ISP interface deactivated (resp. programming mode disabled).
\* When SPIEN (resp. JTAGEN) reads unprogrammed the update throws although the bit
\* already has the requested value.
AlreadySetReturnsSilentlyWhenEnabled ==
    /\ (DwenAlreadySet /\ FirstReadProgrammed(config.layout.spien))
           => /\ ~FuseWritten
              /\ ~FailedWithin("updateDwenFuseBit") => DwenUpdateReturnedClean
    /\ (OcdenAlreadySet /\ FirstReadProgrammed(config.layout.jtagen))
           => /\ ~FuseWritten
              /\ ~FailedWithin("updateOcdenFuseBit") => OcdenUpdateReturnedClean
    /\ (DwenAlreadySet /\ FirstReadUnprogrammed(config.layout.spien))
           => Threw("updateDwenFuseBit") /\ ~FuseWritten
    /\ (OcdenAlreadySet /\ FirstReadUnprogrammed(config.layout.jtagen))
           => Threw("updateOcdenFuseBit") /\ ~FuseWritten

\* OCDEN was already unprogrammed when deactivate asked to unprogram it: the update
\* left programming mode and returned, and nothing was written.
OcdenAlreadyClearedOnDeactivate ==
    /\ op = "deactivate"
    /\ OcdenAlreadySet
    /\ FirstReadProgrammed(config.layout.jtagen)
    /\ Sent("LeaveProgrammingMode")
    /\ OcdenUpdateReturnedClean

\* The fuse access at i is a write, and the one after it read another value back.
ReadBackMismatch(i) ==
    /\ fuseAccess[i].access = "write"
    /\ i + 1 \in DOMAIN fuseAccess
    /\ fuseAccess[i + 1].value # fuseAccess[i].value

\* No physical activation was attempted after the DWEN update was entered.
NoActivationRetry ==
    \A i \in DOMAIN trace :
        i > EnterIndex("updateDwenFuseBit")
            => trace[i][1] \notin {"ActivatePhysical", "ActivatePhysical+Reset"}

\* C4: the fuse access following a write of a fuse byte is the read of that fuse byte
\* (and if the read could not be made the update throws); if the value read differs from
\* the value written the update throws, and in the DWEN case Avr8::activate throws too,
\* the target not activated and no physical activation retried.
WrittenFuseIsVerified ==
    \A i \in DOMAIN fuseAccess :
        fuseAccess[i].access = "write" =>
            LET procedure == IF Entered("updateDwenFuseBit")
                             THEN "updateDwenFuseBit" ELSE "updateOcdenFuseBit"
            IN  /\ i + 1 \in DOMAIN fuseAccess =>
                       /\ fuseAccess[i + 1].access = "read"
                       /\ fuseAccess[i + 1].fuseType = fuseAccess[i].fuseType
                /\ i + 1 \notin DOMAIN fuseAccess => Threw(procedure)
                /\ ReadBackMismatch(i) =>
                       /\ Threw(procedure)
                       /\ Entered("updateDwenFuseBit") =>
                              /\ op = "activate"
                              /\ outcome = "Exception"
                              /\ ~activated
                              /\ NoActivationRetry

\* The DWEN fuse was programmed, the read-back showed the old value, and activate failed.
DwenReadBackMismatch ==
    /\ Entered("updateDwenFuseBit")
    /\ \E i \in DOMAIN fuseAccess : ReadBackMismatch(i)
    /\ outcome = "Exception"

(***************************************************************************)
(* Deactivation and programming mode                                       *)
(***************************************************************************)
\* C5: whenever Avr8::deactivate completes and marks the target as not activated, the
\* debug interface has been detached and its physical interface deactivated, in every
\* configuration, JTAG with OCDEN fuse management included.
DeactivateDetachesAndDeactivatesPhysical ==
    (op = "deactivate" /\ ~activated)
        => ~targetAttached /\ ~physicalInterfaceActivated

\* The successful EnterProgrammingMode and LeaveProgrammingMode frames of a trace.
ProgrammingModeFrames(tr) ==
    SelectSeq(tr, LAMBDA e : e \in {<<"EnterProgrammingMode", "OK">>,
                                     <<"LeaveProgrammingMode", "OK">>})

\* They alternate, starting with Enter when programming mode was disabled before.
Alternate(frames, enabledBefore) ==
    \A i \in DOMAIN frames :
        frames[i][1] = IF (i % 2 = 1) = enabledBefore
                       THEN "LeaveProgrammingMode" ELSE "EnterProgrammingMode"

\* C6: successful EnterProgrammingMode and LeaveProgrammingMode frames strictly
\* alternate, starting with Enter, and deactivate sends no Detach or DeactivatePhysical
\* while programming mode is still enabled.
ProgrammingModeLeftBeforeDeactivation ==
    [][/\ Alternate(ProgrammingModeFrames(trace'), programmingModeEnabled)
       /\ (/\ op' = "deactivate"
           /\ \E e \in Range(trace') : e[1] \in {"Detach", "DeactivatePhysical"})
              => ~programmingModeEnabled]_vars

(***************************************************************************)
(* The tracked target state                                                *)
(***************************************************************************)
\* C7: the tracked state becomes STOPPED only where a Break event was polled just
\* before: every assignment of STOPPED follows the poll that yielded the Break event,
\* and the state never changes to STOPPED without such an assignment.
StoppedOnlyOnBreak ==
    [][/\ \A i \in DOMAIN trace' :
              trace'[i] = <<"targetState", "STOPPED">>
                  => i > 1 /\ trace'[i - 1] = <<"poll", "BREAK">>
       /\ (targetState' = "STOPPED" /\ targetState # "STOPPED")
              => <<"targetState", "STOPPED">> \in Range(trace')]_vars

\* get_target_state polled a Break event while the target was running.
StoppedByPolledBreak ==
    /\ op = "getState"
    /\ trace = << <<"poll", "BREAK">>, <<"targetState", "STOPPED">> >>
    /\ targetState = "STOPPED"

RunCommands == {"run", "runTo", "step"}

EventsDrainedBeforeRunning ==
    \A i \in DOMAIN trace :
        trace[i][1] \in {"Run", "RunTo", "Step"} =>
            /\ i > 1
            /\ trace[i - 1] = <<"poll", "none">>
            /\ trace[i][2] = "OK" => targetState = "RUNNING"

\* C10: when stop() returns without an error the tracked state is STOPPED; if the target
\* was RUNNING, a Break event was polled after the Stop frame was answered OK; and if the
\* Stop frame is answered FAILED, stop() throws and the tracked state is unchanged.
StopWaitsForBreak ==
    [][op' = "stop" =>
           /\ outcome' = "none" => targetState' = "STOPPED"
           /\ (outcome' = "none" /\ targetState = "RUNNING") =>
                  \E i, j \in DOMAIN trace' :
                      /\ i < j
                      /\ trace'[i] = <<"Stop", "OK">>
                      /\ trace'[j] = <<"poll", "BREAK">>
           /\ <<"Stop", "FAILED">> \in Range(trace') =>
                  targetState' = targetState /\ outcome' = "Avr8CommandFailure"]_vars

\* stop() found the target still running after the Stop frame, waited, and returned
\* once the Break event came.
StopWaitedForBreak ==
    /\ op = "stop"
    /\ outcome = "none"
    /\ stateBefore = "RUNNING"
    /\ <<"targetState", "RUNNING">> \in Range(trace)
    /\ <<"poll", "BREAK">> \in Range(trace)
    /\ targetState = "STOPPED"


(***************************************************************************)
(* Activation                                                              *)
(***************************************************************************)
\* Where the trace holds `entry`.
Indices(entry) == { i \in DOMAIN trace : trace[i] = entry }

\* Each attempt to activate the physical interface starts with an ActivatePhysical frame
\* without external reset.
ActivationAttempts == Indices(<<"ActivatePhysical", "OK">>) \cup Indices(<<"ActivatePhysical", "FAILED">>)

\* The attempts that failed: the frame with external reset was answered FAILED too.
FailedActivationAttempts == Indices(<<"ActivatePhysical+Reset", "FAILED">>)

PowerCycleFailed ==
    \/ <<"power.disableTargetPower", "FAILED">> \in Range(trace)
    \/ <<"power.enableTargetPower", "FAILED">> \in Range(trace)

\* C11: in Avr8::activate on debugWire the DWEN fuse update runs at most once, and only
\* after the first activation attempt failed; once the update (and the power cycle,
\* where configured) is through, activation is retried exactly once, and never
\* otherwise; if the retry fails, activate throws and the target is not marked
\* activated.
DwenRecoveryRetriesOnce ==
    (op = "activate" /\ config.physicalInterface = "DEBUG_WIRE") =>
        /\ Cardinality(Indices(<<"updateDwenFuseBit", "enter">>)) <= 1
        /\ Cardinality(ActivationAttempts) <= 2
        /\ Entered("updateDwenFuseBit") =>
               \E i \in FailedActivationAttempts : i < EnterIndex("updateDwenFuseBit")
        /\ Cardinality(ActivationAttempts) = 2 <=>
               Returned("updateDwenFuseBit") /\ ~PowerCycleFailed
        /\ Cardinality(ActivationAttempts) = 2 =>
               \A i \in ActivationAttempts :
                   i < EnterIndex("updateDwenFuseBit") \/ i > ExitIndex("updateDwenFuseBit")
        /\ (\/ Cardinality(FailedActivationAttempts) = 2
            \/ Cardinality(ActivationAttempts) = 2 /\ <<"Attach+Break", "FAILED">> \in Range(trace))
               => outcome # "none" /\ ~activated

\* The DWEN fuse was updated, activation was retried, and the retry failed as well.
DwenRecoveryRetryFailed ==
    /\ op = "activate"
    /\ Returned("updateDwenFuseBit")
    /\ FuseWritten
    /\ Cardinality(ActivationAttempts) = 2
    /\ Cardinality(FailedActivationAttempts) = 2
    /\ outcome # "none"
    /\ ~activated

\* The first attempt of this activation to activate the physical interface failed with
\* failure code `c` (the OCDEN fuse update, which may activate the interface again when
\* it leaves programming mode, comes after a successful activation only).
FirstActivationFailedWith(c) ==
    \E j \in FailedActivationAttempts :
        /\ ~Entered("updateOcdenFuseBit")
        /\ Cardinality({ i \in ActivationAttempts : i < j }) = 1
        /\ j < Len(trace)
        /\ trace[j + 1] = <<"Avr8CommandFailure", c>>

IspTraffic == \E i \in DOMAIN trace : trace[i][1] \in { "isp.activate", "isp.deactivate", "isp.getDeviceId",
                                                        "isp.readFuse", "isp.readLockBitByte",
                                                        "isp.programFuse" }

DwenRecoveryConditions(c) ==
    /\ config.physicalInterface = "DEBUG_WIRE"
    /\ c \in {"DEBUGWIRE_PHYSICAL_ERROR", "FAILED_TO_ENABLE_OCD"}
    /\ config.manageDwenFuseBit
    /\ config.hasIspInterface

\* C12: during Avr8::activate the ISP interface is used only after the first attempt to
\* activate the physical interface failed on debugWire with DEBUGWIRE_PHYSICAL_ERROR or
\* FAILED_TO_ENABLE_OCD, with DWEN management enabled and an ISP interface present; when
\* that attempt fails in any other case, activate throws without any ISP traffic and
\* without any fuse write.
IspOnlyForDebugWireRecovery ==
    op = "activate" =>
        /\ IspTraffic => \E c \in FailureCodes :
                             FirstActivationFailedWith(c) /\ DwenRecoveryConditions(c)
        /\ \A c \in FailureCodes :
               FirstActivationFailedWith(c) /\ ~DwenRecoveryConditions(c)
                   => /\ outcome # "none"
                      /\ ~activated
                      /\ ~IspTraffic
                      /\ ~FuseWritten
                      /\ Cardinality(ActivationAttempts) = 1

\* A debugWire activation failed with another failure code, with DWEN management
\* enabled and an ISP interface present.
DebugWireActivationFailedWithOtherCode ==
    /\ op = "activate"
    /\ config.physicalInterface = "DEBUG_WIRE"
    /\ config.manageDwenFuseBit
    /\ config.hasIspInterface
    /\ FirstActivationFailedWith("INVALID_ADDRESS")
    /\ outcome # "none"

\* Where the trace `tr` holds `entry`.
IndicesIn(tr, entry) == { i \in DOMAIN tr : tr[i] = entry }

\* The order of a completed activation recorded in `tr`, started with the physical
\* interface activated or not and the target attached or not.  The frames sent inside
\* the OCDEN fuse update (which activates the interface again when it leaves programming
\* mode on a target configured so) belong to the update.
ActivationInOrder(tr, wasPhysicalInterfaceActivated, wasTargetAttached) ==
    LET ocdenUpdate == IndicesIn(tr, <<"updateOcdenFuseBit", "enter">>)
        ocdenUpdated == IndicesIn(tr, <<"updateOcdenFuseBit", "return">>)
        Own(S) == { i \in S : ~\E e \in ocdenUpdate, x \in ocdenUpdated : e < i /\ i < x }
        physicalActivated == Own(IndicesIn(tr, <<"ActivatePhysical", "OK">>)
                                     \cup IndicesIn(tr, <<"ActivatePhysical+Reset", "OK">>))
        physical == physicalActivated
                        \cup Own(IndicesIn(tr, <<"ActivatePhysical", "FAILED">>)
                                     \cup IndicesIn(tr, <<"ActivatePhysical+Reset", "FAILED">>))
        attached == Own(IndicesIn(tr, <<"Attach", "OK">>) \cup IndicesIn(tr, <<"Attach+Break", "OK">>))
        resets == IndicesIn(tr, <<"Reset", "OK">>)
    IN  /\ \A parameter \in {"SetParameter:CONFIG_VARIANT", "SetParameter:CONFIG_FUNCTION",
                             "SetParameter:PHYSICAL_INTERFACE"} :
               \E i \in IndicesIn(tr, <<parameter, "OK">>) :
                   \A j \in physical \cup attached \cup ocdenUpdate \cup resets : i < j
        /\ ~wasPhysicalInterfaceActivated => physicalActivated # {}
        /\ ~wasTargetAttached => attached # {}
        /\ \A a \in attached :
               wasPhysicalInterfaceActivated \/ \E j \in physicalActivated : j < a
        /\ (config.physicalInterface = "JTAG" /\ config.manageOcdenFuseBit)
               <=> (ocdenUpdate # {} /\ ocdenUpdated # {})
        /\ \A a \in attached : \A e \in ocdenUpdate : a < e
        /\ Cardinality(resets) = 1
        /\ \A r \in resets :
               /\ \A j \in physical \cup attached \cup ocdenUpdated : j < r
               /\ \A i \in DOMAIN tr : i > r => tr[i][1] \in {"poll", "targetState"}

\* C13: every Avr8::activate that activates the target and returns has set
\* CONFIG_VARIANT, CONFIG_FUNCTION and PHYSICAL_INTERFACE before it activated the
\* physical interface, activated the physical interface before it attached, attached
\* before the OCDEN fuse update (which runs on JTAG with OCDEN management only), sent
\* Reset after everything else, and leaves the tracked state at STOPPED.
ActivationSequenceOrdered ==
    [][(~activated /\ op' = "activate" /\ outcome' = "none")
           => /\ ActivationInOrder(trace', physicalInterfaceActivated, targetAttached)
              /\ activated'
              /\ targetState' = "STOPPED"]_vars

\* An activation on JTAG that activated the physical interface, attached, cleared the
\* OCDEN fuse bit and reset the target.
JtagActivatedWithOcdenUpdate ==
    /\ op = "activate"
    /\ outcome = "none"
    /\ activated
    /\ config.physicalInterface = "JTAG"
    /\ Sent("ActivatePhysical")
    /\ Sent("Attach")
    /\ Returned("updateOcdenFuseBit")
    /\ FuseWritten
    /\ Sent("Reset")
    /\ targetState = "STOPPED"

(***************************************************************************)
(* Deactivation                                                            *)
(***************************************************************************)
\* The order of the frames of EdbgAvr8Interface::deactivate in `tr`, called with the
\* target attached and the physical interface activated or not.
DeactivationInOrder(tr, wasPhysicalInterfaceActivated) ==
    LET Frames(frame) == IndicesIn(tr, <<frame, "OK">>) \cup IndicesIn(tr, <<frame, "FAILED">>)
        disabling == Frames("DisableDebugWire")
        detaching == Frames("Detach")
        deactivating == Frames("DeactivatePhysical")
    IN  /\ IF config.physicalInterface = "DEBUG_WIRE" /\ config.disableDebugWireOnDeactivate
           THEN Cardinality(disabling) = 1
           ELSE disabling = {}
        /\ Cardinality(detaching) = 1
        /\ \A i \in disabling : \A j \in detaching : i < j
        /\ \A j \in detaching : \A k \in deactivating : j < k
        /\ (<<"Detach", "OK">> \in Range(tr) /\ wasPhysicalInterfaceActivated)
               <=> Cardinality(deactivating) = 1
        /\ deactivating = {} \/ Cardinality(deactivating) = 1

\* Avr8::deactivate reaches EdbgAvr8Interface::deactivate once the target is stopped and
\* the breakpoints are cleared, unless it manages the OCDEN fuse bit of a JTAG target.
InterfaceDeactivateCalled(tr) ==
    /\ ~(config.physicalInterface = "JTAG" /\ config.manageOcdenFuseBit)
    /\ <<"ClearAllSoftwareBreakpoints", "OK">> \in Range(tr)

\* C14: EdbgAvr8Interface::deactivate, called with the target attached, sends
\* DisableDebugWire (on debugWire with disableDebugWireOnDeactivate only) before Detach
\* and Detach before DeactivatePhysical; a failed DisableDebugWire stops neither: Detach
\* is sent all the same, and DeactivatePhysical after a successful Detach.
InterfaceDeactivationOrdered ==
    [][(op' = "deactivate" /\ targetAttached /\ InterfaceDeactivateCalled(trace'))
           => /\ DeactivationInOrder(trace', physicalInterfaceActivated)
              /\ (/\ <<"Detach", "OK">> \in Range(trace')
                  /\ <<"DeactivatePhysical", "OK">> \in Range(trace'))
                     => ~targetAttached' /\ ~physicalInterfaceActivated' /\ ~activated']_vars

\* A deactivation that failed to disable debugWire and detached and deactivated the
\* physical interface all the same.
DeactivatedAfterFailedDisableDebugWire ==
    /\ op = "deactivate"
    /\ <<"DisableDebugWire", "FAILED">> \in Range(trace)
    /\ <<"Detach", "OK">> \in Range(trace)
    /\ <<"DeactivatePhysical", "OK">> \in Range(trace)
    /\ ~targetAttached
    /\ ~physicalInterfaceActivated
    /\ ~activated

(***************************************************************************)
(* Memory access                                                           *)
(***************************************************************************)
\* C15: a read that returns, of the memory type, start address and length of the last
\* write that Avr8::writeMemory accepted, returns the bytes written: for RAM and
\* EEPROM, and for FLASH inside the programming-mode session of the write; on every
\* configuration variant, aligned or not, within a page or across pages.
ReadBackReturnsWritten ==
    (/\ op = "readBack"
     /\ outcome = "none"
     /\ written.memoryType = "FLASH" => written.session)
        => request.data = written.buffer

\* Bytes written to FLASH across a page boundary, from an address inside a page, were
\* read back in the same programming-mode session.
UnalignedFlashWriteReadBack ==
    /\ op = "readBack"
    /\ outcome = "none"
    /\ written.memoryType = "FLASH"
    /\ written.session
    /\ written.startAddress % targetParameters.flashPageSize # 0
    /\ Len(written.buffer) > targetParameters.flashPageSize
    /\ request.data = written.buffer
    /\ Cardinality({ i \in DOMAIN memAccess : memAccess[i].access = "read" }) > 1

\* The WriteMemory frames of the last operation.
WriteFrames == { i \in DOMAIN memAccess : memAccess[i].access = "write" }

\* The ReadMemory frames of the last operation.
ReadFrames == { i \in DOMAIN memAccess : memAccess[i].access = "read" }

\* C16: while programming mode is enabled on the debug interface, every read of RAM and
\* every write to RAM throws, and sends no ReadMemory and no WriteMemory frame.
RamAccessRejectedInProgrammingMode ==
    (/\ op \in {"readMemory", "readBack", "writeMemory"}
     /\ request.memoryType = "RAM"
     /\ programmingModeEnabled)
        => outcome # "none" /\ memAccess = <<>>

\* C17: a FLASH write through Avr8::writeMemory made while programming mode is not
\* enabled on the debug interface throws, and sends no WriteMemory frame, whatever calls
\* to enable and disable programming mode came before, failed ones included.
FlashWriteOnlyInProgrammingMode ==
    (/\ op = "writeMemory"
     /\ request.memoryType = "FLASH"
     /\ ~programmingModeEnabled)
        => outcome # "none" /\ WriteFrames = {}

\* C18: every write that the "M" packet handler forwards is a write to RAM or EEPROM of
\* at least one byte whose range, from the start address forwarded (for EEPROM the
\* absolute one) to its last byte, lies inside the memory descriptor's address range,
\* taken from 0 for RAM; a write not forwarded sends nothing to the probe and is
\* answered with an error, or with OK when it is a write of no bytes to RAM or EEPROM.
ForwardedWritesInsideMemory ==
    op = "WriteMemory::handle" =>
        IF request.forwarded
        THEN /\ request.memoryType \in {"RAM", "EEPROM"}
             /\ request.bytes > 0
             /\ request.startAddress >=
                    (IF request.memoryType = "RAM"
                     THEN 0
                     ELSE memoryDescriptorsByType[request.memoryType].addressRange.startAddress)
             /\ request.startAddress + request.bytes - 1 <=
                    memoryDescriptorsByType[request.memoryType].addressRange.endAddress
        ELSE /\ memAccess = <<>>
             /\ trace = <<<<"writePacket", request.response>>>>
             /\ request.response =
                    (IF request.bytes = 0 /\ request.memoryType \in {"RAM", "EEPROM"}
                     THEN "OkResponsePacket"
                     ELSE "ErrorResponsePacket")

\* A write up to the last byte of an EEPROM that does not start at address 0 was
\* forwarded, with its absolute start address, and answered OK.
EepromWriteForwarded ==
    /\ op = "WriteMemory::handle"
    /\ request.forwarded
    /\ request.memoryType = "EEPROM"
    /\ memoryDescriptorsByType.EEPROM.addressRange.startAddress > 0
    /\ request.startAddress > memoryDescriptorsByType.EEPROM.addressRange.startAddress
    /\ request.startAddress + request.bytes - 1
           = memoryDescriptorsByType.EEPROM.addressRange.endAddress
    /\ request.response = "OkResponsePacket"
    /\ WriteFrames # {}

(***************************************************************************)
(* Alignment and chunking                                                  *)
(***************************************************************************)
\* The alignment of an Avr8MemoryType: the flash page size for the flash types that are
\* accessed by page, the EEPROM page size for the EEPROM types that are, 1 otherwise.
Alignment(type) ==
    IF type \in {"FLASH_PAGE", "SPM", "APPL_FLASH", "BOOT_FLASH"}
    THEN targetParameters.flashPageSize
    ELSE IF type \in {"EEPROM_ATOMIC", "EEPROM_PAGE"}
    THEN targetParameters.eepromPageSize
    ELSE 1

\* C19: for every memory type, address and length, alignMemoryAddress returns a multiple
\* of the type's alignment that is at most the address, and alignMemoryBytes, given the
\* length grown by the distance down to the aligned address, returns a multiple of the
\* alignment that is at least that.
AlignedRequestCoversRequest ==
    op = "align" =>
        /\ request.alignedStartAddress <= request.startAddress
        /\ request.alignedStartAddress % Alignment(request.memoryType) = 0
        /\ ~request.offsetWrapped
        /\ request.alignedBytes >=
               request.bytes + (request.startAddress - request.alignedStartAddress)
        /\ request.alignedBytes % Alignment(request.memoryType) = 0

IsReadFrame(frame) == frame.access = "read"
IsWriteFrame(frame) == frame.access = "write"

\* The most bytes one transaction of an Avr8MemoryType moves: a page for the types
\* accessed by page, and what fits two HID reports otherwise.
MaximumTransactionSize(type) ==
    IF type \in {"FLASH_PAGE", "APPL_FLASH", "BOOT_FLASH"} \/ (type = "SPM" /\ configVariant = "MEGAJTAG")
    THEN targetParameters.flashPageSize
    ELSE IF type \in {"EEPROM_ATOMIC", "EEPROM_PAGE"}
    THEN targetParameters.eepromPageSize
    ELSE (getUsbHidInputReportSize - 30) * 2

\* `frames` are ceil(total / maximum) transactions of at most `maximum` bytes each, one
\* after the other in ascending address order, without gap or overlap.
ChunksInOrder(frames, maximum, total) ==
    /\ Len(frames) = (total + maximum - 1) \div maximum
    /\ \A i \in DOMAIN frames : frames[i].bytes <= maximum
    /\ \A i \in 1 .. (Len(frames) - 1) :
           frames[i + 1].address = frames[i].address + frames[i].bytes

\* `frames` move `total` bytes from an address that is a multiple of `alignTo`.
ChunksCover(frames, alignTo, total) ==
    /\ frames[1].address % alignTo = 0
    /\ frames[Len(frames)].address + frames[Len(frames)].bytes - frames[1].address = total

\* The frames of the kind of the last request: ReadMemory for a read, WriteMemory for a
\* write.
RequestFrames ==
    IF op = "writeMemory"
    THEN SelectSeq(memAccess, IsWriteFrame)
    ELSE SelectSeq(memAccess, IsReadFrame)

\* The address that the start address of the last request becomes in a frame of the
\* Avr8MemoryType `type`: relative to the section for the flash sections, and to the
\* EEPROM on XMEGA.
WireStartAddress(type) ==
    CASE type = "APPL_FLASH" -> request.startAddress - targetParameters.appSectionStartAddress
      [] type = "BOOT_FLASH" -> request.startAddress - targetParameters.bootSectionStartAddress
      [] type \in {"EEPROM", "EEPROM_ATOMIC", "EEPROM_PAGE"} /\ configVariant = "XMEGA" ->
            request.startAddress - targetParameters.eepromStartAddress
      [] OTHER -> request.startAddress

\* The length of the last request once its range is widened to the alignment of the
\* Avr8MemoryType `type`.
WidenedLength(type) ==
    LET alignTo == Alignment(type)
        first == (WireStartAddress(type) \div alignTo) * alignTo
        last == ((WireStartAddress(type) + request.bytes + alignTo - 1) \div alignTo) * alignTo
    IN  last - first

MemoryRequestCompleted ==
    /\ op \in {"readMemory", "readBack", "writeMemory"}
    /\ outcome = "none"
    /\ RequestFrames # <<>>

\* C20 as claimed: a completed read or write of more bytes than the maximum of its memory
\* type takes ceil(length / maximum) transactions, each of at most the maximum,
\* contiguous and ascending.
ChunkedByRequestedLength ==
    (/\ MemoryRequestCompleted
     /\ request.bytes > MaximumTransactionSize(RequestFrames[1].type))
        => ChunksInOrder(RequestFrames, MaximumTransactionSize(RequestFrames[1].type),
                         request.bytes)

\* C20: a completed read or write whose range, widened to the alignment of its memory
\* type, is longer than the maximum of the type takes ceil(widened length / maximum)
\* transactions, each of at most the maximum, contiguous and ascending over the widened
\* range; the read that a write of an unaligned range merges with is chunked the same
\* way by the maximum of the type it reads with.
ChunkedByWidenedLength ==
    MemoryRequestCompleted =>
        LET type == RequestFrames[1].type
            merged == SelectSeq(memAccess, IsReadFrame)
        IN  /\ WidenedLength(type) > MaximumTransactionSize(type)
                   => /\ ChunksInOrder(RequestFrames, MaximumTransactionSize(type),
                                       WidenedLength(type))
                      /\ ChunksCover(RequestFrames, Alignment(type), WidenedLength(type))
            /\ (/\ op = "writeMemory"
                /\ merged # <<>>
                /\ WidenedLength(type) > MaximumTransactionSize(merged[1].type))
                   => /\ ChunksInOrder(merged, MaximumTransactionSize(merged[1].type),
                                       WidenedLength(type))
                      /\ ChunksCover(merged, Alignment(type), WidenedLength(type))

\* A write of more than a page from an address inside a page took more transactions
\* than its length asks for, after a read of the widened range.
UnalignedWriteChunked ==
    /\ MemoryRequestCompleted
    /\ op = "writeMemory"
    /\ request.bytes > MaximumTransactionSize(RequestFrames[1].type)
    /\ WidenedLength(RequestFrames[1].type) > request.bytes
    /\ Len(RequestFrames) > (request.bytes + MaximumTransactionSize(RequestFrames[1].type) - 1)
                                \div MaximumTransactionSize(RequestFrames[1].type)
    /\ ReadFrames # {}

(***************************************************************************)
(* Configuration variants                                                  *)
(***************************************************************************)
\* The variant of each (family, physical interface) pair of the fixed table.
VariantTable ==
    { <<family, "JTAG", "MEGAJTAG">> : family \in {"MEGA", "TINY"} }
    \cup { <<family, "DEBUG_WIRE", "DEBUG_WIRE">> : family \in {"MEGA", "TINY"} }
    \cup { <<family, "UPDI", "UPDI">> : family \in {"MEGA", "TINY", "DA", "DB", "DD", "EA"} }
    \cup { <<"XMEGA", "JTAG", "XMEGA">>, <<"XMEGA", "PDI", "XMEGA">> }

Configured == op \in {"configure", "preActivationConfigure"}

\* C22: for a known family the variant resolved is the one of the table for the pair of
\* family and physical interface, and none for a pair outside the table.
VariantMatchesTable ==
    (Configured /\ config.family # "NONE") =>
        /\ outcome = "none"
        /\ \A variant \in {"MEGAJTAG", "DEBUG_WIRE", "XMEGA", "UPDI"} :
               request.response = variant
                   <=> <<config.family, config.physicalInterface, variant>> \in VariantTable
        /\ request.response = "NONE"
               <=> ~\E variant \in {"MEGAJTAG", "DEBUG_WIRE", "XMEGA", "UPDI"} :
                       <<config.family, config.physicalInterface, variant>> \in VariantTable

\* An XMEGA target configured for JTAG resolved to the XMEGA variant.
XmegaJtagResolved ==
    /\ op = "configure"
    /\ config.family = "XMEGA"
    /\ config.physicalInterface = "JTAG"
    /\ request.response = "XMEGA"

\* C23 as claimed: without a family, a variant is resolved for debugWire, PDI, UPDI and
\* ISP, and none for JTAG only, which is refused.
FallbackResolvesAllButJtag ==
    (Configured /\ config.family = "NONE") =>
        IF config.physicalInterface = "JTAG"
        THEN request.response \in {"NONE", "unset"}
        ELSE request.response \in {"MEGAJTAG", "DEBUG_WIRE", "XMEGA", "UPDI"}

\* C23: without a family, the variant resolved is DEBUG_WIRE for debugWire, XMEGA for PDI
\* and UPDI for UPDI, and none for JTAG and for ISP; the facade refuses JTAG and UPDI
\* before the debug interface is configured, and nothing else.
FallbackResolvesDebugInterfaces ==
    (Configured /\ config.family = "NONE") =>
        /\ op = "configure" =>
               request.response =
                   (CASE config.physicalInterface = "DEBUG_WIRE" -> "DEBUG_WIRE"
                      [] config.physicalInterface = "PDI" -> "XMEGA"
                      [] config.physicalInterface = "UPDI" -> "UPDI"
                      [] OTHER -> "NONE")
        /\ op = "preActivationConfigure" =>
               /\ outcome = "InvalidConfig" <=> config.physicalInterface \in {"JTAG", "UPDI"}
               /\ outcome \in {"none", "InvalidConfig"}
               /\ request.response =
                      (CASE config.physicalInterface = "DEBUG_WIRE" -> "DEBUG_WIRE"
                         [] config.physicalInterface = "PDI" -> "XMEGA"
                         [] config.physicalInterface = "ISP" -> "NONE"
                         [] OTHER -> "unset")

\* Without a family, no variant was resolved for ISP.
IspWithoutFamilyUnresolved ==
    /\ op = "preActivationConfigure"
    /\ config.family = "NONE"
    /\ config.physicalInterface = "ISP"
    /\ outcome = "none"
    /\ request.response = "NONE"

(***************************************************************************)
(* Activation of the physical interface                                    *)
(***************************************************************************)
\* C25: the ActivatePhysical frames of an operation come in groups of one call each: the
\* frame without external reset, followed, exactly when it was answered FAILED, by one
\* frame with external reset; a FAILED answer to that one is surfaced at once, and
\* an operation in which no ActivatePhysical frame was answered OK does not mark
\* the physical interface activated.
ActivatePhysicalRetriedOnce ==
    [][op' # "idle" =>
          /\ \A i \in DOMAIN trace' :
                 /\ trace'[i][1] = "ActivatePhysical+Reset"
                        => i > 1 /\ trace'[i - 1] = <<"ActivatePhysical", "FAILED">>
                 /\ trace'[i] = <<"ActivatePhysical", "FAILED">>
                        => i < Len(trace') /\ trace'[i + 1][1] = "ActivatePhysical+Reset"
                 /\ trace'[i] = <<"ActivatePhysical+Reset", "FAILED">>
                        => i < Len(trace') /\ trace'[i + 1][1] = "Avr8CommandFailure"
          /\ (/\ ~physicalInterfaceActivated
              /\ <<"ActivatePhysical", "OK">> \notin Range(trace')
              /\ <<"ActivatePhysical+Reset", "OK">> \notin Range(trace'))
                 => ~physicalInterfaceActivated']_vars

\* Both ActivatePhysical frames of an activation were answered FAILED, and the
\* activation failed with the physical interface not activated.
ActivatePhysicalFailedTwice ==
    /\ op = "activate"
    /\ outcome # "none"
    /\ <<"ActivatePhysical+Reset", "FAILED">> \in Range(trace)
    /\ ~physicalInterfaceActivated

(***************************************************************************)
(* Software breakpoints on deactivation                                    *)
(***************************************************************************)
\* C26: in a deactivation, a Detach frame is sent only after a Stop frame and, after it,
\* a ClearAllSoftwareBreakpoints frame have both been answered OK.
BreakpointsClearedBeforeDetach ==
    op = "deactivate" =>
        \A k \in IndicesIn(trace, <<"Detach", "OK">>) \cup IndicesIn(trace, <<"Detach", "FAILED">>) :
            \E i, j \in DOMAIN trace :
                /\ i < j
                /\ j < k
                /\ trace[i] = <<"Stop", "OK">>
                /\ trace[j] = <<"ClearAllSoftwareBreakpoints", "OK">>

\* A deactivation stopped the target, cleared the breakpoints and detached.
DetachedWithBreakpointsCleared ==
    /\ op = "deactivate"
    /\ <<"ClearAllSoftwareBreakpoints", "OK">> \in Range(trace)
    /\ <<"Detach", "OK">> \in Range(trace)
    /\ ~activated

(***************************************************************************)
(* Reset                                                                   *)
(***************************************************************************)
\* C27: a reset returns only with a Break event polled after the Reset frame was answered
\* OK, and then the tracked state is STOPPED whatever it was; when the Reset frame is
\* answered FAILED or no Break event is polled the reset fails and the tracked state
\* stays what it was.
ResetWaitsForBreak ==
    [][op' = "reset" =>
          LET resetOk == IndicesIn(trace', <<"Reset", "OK">>)
              breaks == IndicesIn(trace', <<"poll", "BREAK">>)
          IN  IF outcome' = "none"
              THEN /\ targetState' = "STOPPED"
                   /\ \E i \in resetOk : \E j \in breaks : i < j
              ELSE /\ targetState' = targetState
                   /\ resetOk = {} \/ breaks = {}
                   /\ resetOk = {} <=> <<"Reset", "FAILED">> \in Range(trace')]_vars

\* A reset of a running target failed for want of a Break event and left the tracked
\* state RUNNING.
ResetFailedWithoutBreak ==
    /\ op = "reset"
    /\ outcome = "Exception"
    /\ <<"Reset", "OK">> \in Range(trace)
    /\ stateBefore = "RUNNING"
    /\ targetState = "RUNNING"

\* A reset of a running target returned with the tracked state STOPPED.
ResetStoppedRunningTarget ==
    /\ op = "reset"
    /\ outcome = "none"
    /\ stateBefore = "RUNNING"
    /\ targetState = "STOPPED"

(***************************************************************************)
(* Memory types and addresses on the wire                                  *)
(***************************************************************************)
\* The Avr8MemoryType of the table for an access ("read" or "write") to a memory type.
TableMemoryType(access, memoryType) ==
    CASE memoryType = "RAM" -> "SRAM"
      [] memoryType = "FLASH" /\ configVariant \in {"DEBUG_WIRE", "UPDI"} -> "FLASH_PAGE"
      [] memoryType = "FLASH" /\ configVariant = "MEGAJTAG" ->
            IF programmingModeEnabled THEN "FLASH_PAGE" ELSE "SPM"
      [] memoryType = "EEPROM" ->
            IF configVariant = "MEGAJTAG" /\ programmingModeEnabled
            THEN "EEPROM_PAGE"
            ELSE IF access = "write" /\ configVariant \in {"UPDI", "XMEGA"}
            THEN "EEPROM_ATOMIC"
            ELSE "EEPROM"
      [] OTHER -> "FUSES"

MemoryRequested ==
    /\ op \in {"readMemory", "readBack", "writeMemory"}
    /\ RequestFrames # <<>>

\* C28: the frames of a read or a write of RAM, EEPROM or (but on XMEGA) FLASH carry the
\* memory type of the table, and start at the page of the address requested, taken
\* relative to the start of the EEPROM on XMEGA.
WireMemoryTypeMatchesTable ==
    (MemoryRequested /\ ~(request.memoryType = "FLASH" /\ configVariant = "XMEGA")) =>
        LET access == IF op = "writeMemory" THEN "write" ELSE "read"
            type == TableMemoryType(access, request.memoryType)
            wireStartAddress ==
                IF request.memoryType = "EEPROM" /\ configVariant = "XMEGA"
                THEN request.startAddress - targetParameters.eepromStartAddress
                ELSE request.startAddress
        IN  /\ \A i \in DOMAIN RequestFrames : RequestFrames[i].type = type
            /\ RequestFrames[1].address
                   = (wireStartAddress \div Alignment(type)) * Alignment(type)

\* C29: the frames of a read or a write of FLASH on XMEGA at an address at or beyond the
\* start of the boot section, in bytes, are BOOT_FLASH frames at the page of the address
\* less that start; those of an address below it are APPL_FLASH frames at the page of the
\* address less the start of the application section.
XmegaFlashSectionByByteAddress ==
    (MemoryRequested /\ request.memoryType = "FLASH" /\ configVariant = "XMEGA") =>
        LET boot == request.startAddress >= flashMemorySegments.boot_section.startAddress
            type == IF boot THEN "BOOT_FLASH" ELSE "APPL_FLASH"
            wireStartAddress ==
                IF boot
                THEN request.startAddress - flashMemorySegments.boot_section.startAddress
                ELSE request.startAddress - flashMemorySegments.app_section.startAddress
        IN  /\ \A i \in DOMAIN RequestFrames : RequestFrames[i].type = type
            /\ RequestFrames[1].address
                   = (wireStartAddress \div targetParameters.flashPageSize)
                         * targetParameters.flashPageSize

(***************************************************************************)
(* Writes of unaligned ranges                                              *)
(***************************************************************************)
\* The last request was a write that read before it wrote: a write of a range that is
\* not aligned to the pages of its memory type.
MergedWrite ==
    /\ op = "writeMemory"
    /\ ReadFrames # {}
    /\ WriteFrames # {}

\* The first address of the range of the last request widened to the alignment of the
\* Avr8MemoryType `type`.
WidenedStartAddress(type) ==
    (WireStartAddress(type) \div Alignment(type)) * Alignment(type)

\* The bytes of the target in the widened range of the last request that the request
\* does not name.
BytesBesideRequest ==
    LET type == RequestFrames[1].type
    IN  { ProbeAddress(type, a) :
            a \in (WidenedStartAddress(type)
                      .. (WidenedStartAddress(type) + WidenedLength(type) - 1))
                  \ (WireStartAddress(type) .. (WireStartAddress(type) + request.bytes - 1)) }

\* The frames of a merged write: ReadMemory frames over the widened range, of the type of
\* the write or of EEPROM for EEPROM_ATOMIC, and then WriteMemory frames from the start
\* of the widened range, over all of it when the write returns.
MergedWriteFrames ==
    LET type == RequestFrames[1].type
        merged == SelectSeq(memAccess, IsReadFrame)
    IN  /\ \A i \in ReadFrames : \A j \in WriteFrames : i < j
        /\ \A i \in DOMAIN merged :
               merged[i].type = IF type = "EEPROM_ATOMIC" THEN "EEPROM" ELSE type
        /\ \A i \in 1 .. (Len(merged) - 1) :
               merged[i + 1].address = merged[i].address + merged[i].bytes
        /\ merged[1].address = WidenedStartAddress(type)
        /\ ChunksCover(merged, Alignment(type), WidenedLength(type))
        /\ RequestFrames[1].address = WidenedStartAddress(type)
        /\ outcome = "none"
               => ChunksCover(RequestFrames, Alignment(type), WidenedLength(type))

\* C30: a write of a range that is not aligned to the pages of its memory type reads the
\* widened range (with EEPROM for EEPROM_ATOMIC), and writes the widened range back with
\* the caller's bytes at their offset: every byte of the widened range outside the
\* caller's range keeps its value, and when the write returns the caller's range holds
\* the caller's bytes.
UnalignedWriteKeepsNeighbours ==
    [][MergedWrite' =>
          /\ MergedWriteFrames'
          /\ \A at \in BytesBesideRequest' :
                 at.address \in DOMAIN memory[at.memory]
                     => memory'[at.memory][at.address] = memory[at.memory][at.address]
          /\ outcome' = "none"
                 => \A i \in 1 .. request'.bytes :
                        LET at == ProbeAddress(RequestFrames[1].type',
                                               WireStartAddress(RequestFrames[1].type)' + i - 1)
                        IN  memory'[at.memory][at.address] = request'.buffer[i]]_vars

\* An EEPROM write from the second byte of a page returned: the page was read with
\* EEPROM, written with EEPROM_ATOMIC, and its first byte is still erased.
UnalignedAtomicEepromWriteMerged ==
    /\ MergedWrite
    /\ outcome = "none"
    /\ request.bytes > 0
    /\ RequestFrames[1].type = "EEPROM_ATOMIC"
    /\ memAccess[1].type = "EEPROM"
    /\ WireStartAddress("EEPROM_ATOMIC") = WidenedStartAddress("EEPROM_ATOMIC") + 1
    /\ LET at == ProbeAddress("EEPROM_ATOMIC", WidenedStartAddress("EEPROM_ATOMIC"))
       IN  /\ memory[at.memory][at.address] = 255
           /\ memory[at.memory][at.address + 1] = request.buffer[1]

(***************************************************************************)
(* The program counter                                                     *)
(***************************************************************************)
\* The word addresses of the SetProgramCounter frames of the last operation, in order.
ProgramCountersSent ==
    LET IsSetProgramCounter(frame) == frame.access = "setProgramCounter"
        frames == SelectSeq(memAccess, IsSetProgramCounter)
    IN  [i \in DOMAIN frames |-> frames[i].address]

\* C21: setProgramCounter of an even byte address of the flash sends half the address
\* in its one SetProgramCounter frame (none when the target could not be stopped), and a
\* getProgramCounter that returns straight after it has returned gives the address back.
ProgramCounterRoundTrip ==
    [][LET InFlash(address) ==
               /\ address % 2 = 0
               /\ address <= memoryDescriptorsByType.FLASH.addressRange.endAddress
       IN  /\ (op' = "setProgramCounter" /\ InFlash(request'.startAddress))
                  => /\ ProgramCountersSent' \in {<<>>, <<request'.startAddress \div 2>>}
                     /\ outcome' = "none" => ProgramCountersSent' # <<>>
           /\ (/\ op = "setProgramCounter"
               /\ outcome = "none"
               /\ InFlash(request.startAddress)
               /\ op' = "getProgramCounter"
               /\ outcome' = "none")
                  => request'.startAddress = request.startAddress]_vars

\* The program counter read straight after it was set is the last even address of the
\* flash.
ProgramCounterReadAfterSet ==
    /\ op = "getProgramCounter"
    /\ outcome = "none"
    /\ request.after = "setProgramCounter"
    /\ request.startAddress = memoryDescriptorsByType.FLASH.addressRange.endAddress - 1
    /\ programCounter = [known |-> TRUE, address |-> request.startAddress \div 2]

(***************************************************************************)
(* Register reads                                                          *)
(***************************************************************************)
\* The register types of the descriptors of the last request.
TypesRequested == { d.type : d \in request.descriptors }

\* The register types that readRegisters reads memory for: those of the descriptors with
\* a start address, but for the program counter.
TypesRead ==
    { d.type : d \in { x \in request.descriptors :
                         x.hasStartAddress /\ x.type # "PROGRAM_COUNTER" } }

\* The readMemory calls of readRegisters in the last operation.
ReadMemoryCalls == { i \in DOMAIN trace : trace[i][1] = "readMemory" }

\* C24 as claimed: a read of a set of register descriptors sends at most as many
\* ReadMemory frames as there are register types in the set.
TransactionsBoundedByTypes ==
    op = "readRegisters" => Cardinality(ReadFrames) <= Cardinality(TypesRequested)

\* The most ReadMemory frames for the registers of `registerType`: those that the range
\* of the type takes in chunks of the maximum of the memory type, and one more for an
\* excluded address in the range when the read is split at it.
TransactionsForType(registerType) ==
    LET ofType == { d \in request.descriptors :
                      d.hasStartAddress /\ d.type = registerType }
        startAddress == Min({ d.startAddress : d \in ofType })
        endAddress == Max({ d.startAddress + (d.size - 1) : d \in ofType })
        memoryType == IF /\ registerType = "GENERAL_PURPOSE_REGISTER"
                         /\ configVariant \in {"XMEGA", "UPDI"}
                      THEN "REGISTER_FILE"
                      ELSE "SRAM"
        split == IF memoryType = "SRAM" /\ config.avoidMaskedMemoryRead
                 THEN targetParameters.ocdDataRegister \cap (startAddress .. endAddress)
                 ELSE {}
    IN  ((endAddress - startAddress) + MaximumTransactionSize(memoryType))
            \div MaximumTransactionSize(memoryType)
        + Cardinality(split)

RECURSIVE TransactionsForTypes(_)
TransactionsForTypes(registerTypes) ==
    IF registerTypes = {}
    THEN 0
    ELSE LET registerType == CHOOSE x \in registerTypes : TRUE
         IN  TransactionsForType(registerType)
                 + TransactionsForTypes(registerTypes \ {registerType})

\* C24: a read of a set of register descriptors makes at most one readMemory call for
\* each register type of the descriptors that have a start address and are not the
\* program counter, and exactly one when it returns; the program counter is read with
\* GetProgramCounter.  A call sends one ReadMemory frame for every chunk of the maximum
\* transaction size in the address range of the type, and one more where a debug tool
\* that avoids the masked read splits the range at the OCD data register.
ReadMemoryCallsBoundedByTypes ==
    op = "readRegisters" =>
        /\ \A i, j \in ReadMemoryCalls : trace[i][2] = trace[j][2] => i = j
        /\ { trace[i][2] : i \in ReadMemoryCalls } \subseteq TypesRead
        /\ outcome = "none" => Cardinality(ReadMemoryCalls) = Cardinality(TypesRead)
        /\ Cardinality(ReadFrames) <= TransactionsForTypes(TypesRead)
        /\ Sent("GetProgramCounter") => "PROGRAM_COUNTER" \in TypesRequested
        /\ (outcome = "none" /\ "PROGRAM_COUNTER" \in TypesRequested)
               => <<"GetProgramCounter", "OK">> \in Range(trace)

\* Two registers of one type, further apart than one transaction reaches, were read with
\* one readMemory call and two ReadMemory frames.
RegistersOfOneTypeReadInChunks ==
    /\ op = "readRegisters"
    /\ outcome = "none"
    /\ TypesRequested = {"OTHER"}
    /\ Cardinality(request.registers) = 2
    /\ Cardinality(ReadMemoryCalls) = 1
    /\ Cardinality(ReadFrames) = 2

(***************************************************************************)
(* The program counter of a stopped target                                 *)
(***************************************************************************)
\* The tracked target state when entry i of the trace was logged.
TrackedStateAt(i) ==
    LET assigned == { j \in 1 .. (i - 1) : trace[j][1] = "targetState" }
    IN  IF assigned = {} THEN stateBefore ELSE trace[Max(assigned)][2]

ProgramCounterFrames ==
    { i \in DOMAIN trace : trace[i][1] \in {"GetProgramCounter", "SetProgramCounter"} }

\* C40: a GetProgramCounter or SetProgramCounter frame is sent with the tracked state
\* STOPPED; when the call began in another state, the frame comes after a Stop frame
\* answered OK and a Break event polled after it, and a call whose stop fails sends no
\* such frame.
ProgramCounterOnlyWhenStopped ==
    \A i \in ProgramCounterFrames :
        /\ TrackedStateAt(i) = "STOPPED"
        /\ (op \in {"getProgramCounter", "setProgramCounter", "readRegisters"}
               /\ stateBefore # "STOPPED")
              => \E j \in 1 .. (i - 1) : \E k \in (j + 1) .. (i - 1) :
                     /\ trace[j] = <<"Stop", "OK">>
                     /\ trace[k] = <<"poll", "BREAK">>

\* The program counter of a running target was read: the target was stopped first.
RunningTargetStoppedForProgramCounter ==
    /\ op = "getProgramCounter"
    /\ outcome = "none"
    /\ stateBefore = "RUNNING"
    /\ targetState = "STOPPED"
    /\ ProgramCounterFrames # {}

\* The stop of a running target failed, and its program counter was not asked for.
ProgramCounterNotReadAfterFailedStop ==
    /\ op = "getProgramCounter"
    /\ outcome = "Exception"
    /\ stateBefore = "RUNNING"
    /\ <<"Stop", "OK">> \in Range(trace)
    /\ ProgramCounterFrames = {}

(***************************************************************************)
(* The activated flag                                                      *)
(***************************************************************************)
\* C39: an activate() that fails leaves the target not marked activated, an activate()
\* that returns has ended with a reset that succeeded unless the target was activated
\* before, and an activate() of a target not marked activated sends the frames of the
\* activation sequence again.
ActivatedOnlyAfterReset ==
    [][op' = "activate" =>
          /\ outcome' # "none" => ~activated'
          /\ (outcome' = "none" /\ ~activated)
                 => /\ activated'
                    /\ <<"Reset", "OK">> \in Range(trace')
          /\ activated => trace' = <<>>]_vars

(***************************************************************************)
(* The fuse byte written by a fuse update                                  *)
(***************************************************************************)
\* The read of the fuse byte that write i of the last operation writes to: the last
\* read of its fuse type before it, 0 when there is none.
ReadBeforeWrite(i) ==
    LET reads == { j \in 1 .. (i - 1) : /\ fuseAccess[j].access = "read"
                                         /\ fuseAccess[j].fuseType = fuseAccess[i].fuseType }
    IN  IF reads = {} THEN 0 ELSE Max(reads)

FuseWrites == { i \in DOMAIN fuseAccess : fuseAccess[i].access = "write" }

\* The bits of the fuse that the updates of the configuration manage: OCDEN on JTAG,
\* DWEN otherwise.
ManagedFuseBits ==
    IF config.physicalInterface = "JTAG" THEN config.layout.ocden ELSE config.layout.dwen

\* C38: the fuse byte that a DWEN or OCDEN update writes is the byte it read before
\* from the fuse, with the bits of the DWEN or OCDEN mask cleared when the update
\* enables (on activation) and set when it disables (on deactivation), and with every
\* other bit, SPIEN and JTAGEN among them, as it was read.
FuseWriteChangesOnlyManagedBits ==
    \A i \in FuseWrites :
        /\ fuseAccess[i].fuseType = ManagedFuseBits.fuseType
        /\ ReadBeforeWrite(i) # 0
        /\ LET read == fuseAccess[ReadBeforeWrite(i)].value
               newValue == fuseAccess[i].value
               bitMask == ManagedFuseBits.bitMask
           IN  /\ newValue \ bitMask = read \ bitMask
               /\ op = "activate" => BitAnd(newValue, bitMask) = {}
               /\ op = "deactivate" => BitAnd(newValue, bitMask) = bitMask
               /\ op \in {"activate", "deactivate"}

\* A fuse byte with other bits programmed was written with the managed bit changed and
\* the other bits programmed still.
FuseWrittenWithOtherBitsKept ==
    \E i \in FuseWrites :
        /\ ReadBeforeWrite(i) # 0
        /\ fuseAccess[i].value # fuseAccess[ReadBeforeWrite(i)].value
        /\ fuseAccess[i].value \cup ManagedFuseBits.bitMask # Byte0xFF
        /\ BitAnd(fuseAccess[i].value,
                  IF config.physicalInterface = "JTAG"
                  THEN config.layout.jtagen.bitMask
                  ELSE config.layout.spien.bitMask)
               = BitAnd(fuseAccess[ReadBeforeWrite(i)].value,
                        IF config.physicalInterface = "JTAG"
                        THEN config.layout.jtagen.bitMask
                        ELSE config.layout.spien.bitMask)

(***************************************************************************)
(* Frames of the memory types accessed by page                             *)
(***************************************************************************)
\* C31: every ReadMemory and WriteMemory frame of FLASH_PAGE, APPL_FLASH, BOOT_FLASH or,
\* on MEGAJTAG, SPM starts at a multiple of the flash page size and is one flash page
\* long, and every frame of EEPROM_ATOMIC or EEPROM_PAGE starts at a multiple of the
\* EEPROM page size and is one EEPROM page long.
PagedFramesAreOnePage ==
    \A i \in ReadFrames \cup WriteFrames :
        (\/ memAccess[i].type \in {"FLASH_PAGE", "APPL_FLASH", "BOOT_FLASH",
                                    "EEPROM_ATOMIC", "EEPROM_PAGE"}
         \/ memAccess[i].type = "SPM" /\ configVariant = "MEGAJTAG")
            => /\ memAccess[i].address % Alignment(memAccess[i].type) = 0
               /\ memAccess[i].bytes = Alignment(memAccess[i].type)
(***************************************************************************)
(* Reads with excluded address ranges                                      *)
(***************************************************************************)
\* The address of the request lies in one of its excluded address ranges.
Excluded(address) ==
    \E r \in request.excludedAddressRanges :
        r.startAddress <= address /\ address <= r.endAddress

\* The byte that the target holds at an address of the memory of the request.
TargetByte(address) ==
    memory[request.memoryType]
          [IF request.memoryType = "EEPROM"
           THEN address - memoryDescriptorsByType.EEPROM.addressRange.startAddress
           ELSE address]

\* The read is one that the driver masks: of a memory other than the RAM, or with the
\* masked read of the probe avoided.
DriverMasked == request.memoryType # "RAM" \/ config.avoidMaskedMemoryRead

\* C32: a read with excluded address ranges, of a memory type other than SRAM or with
\* masked reads disabled, returns as many bytes as were asked for, 0x00 for every address
\* in an excluded range and the byte of the target for every other address, with every
\* configuration variant.
MaskedReadReturnsTargetBytes ==
    (op = "readMemoryExcluding" /\ outcome = "none" /\ DriverMasked)
        => /\ Len(request.data) = request.bytes
           /\ \A i \in 1 .. request.bytes :
                  request.data[i] = IF Excluded(request.startAddress + i - 1)
                                    THEN 0
                                    ELSE TargetByte(request.startAddress + i - 1)

(***************************************************************************)
(* Erasing a memory                                                        *)
(***************************************************************************)
\* The bytes of the target that the WriteMemory frames of the last operation cover.
BytesCoveredByWrites ==
    UNION { { ProbeAddress(memAccess[i].type, a) :
                  a \in memAccess[i].address .. (memAccess[i].address + memAccess[i].bytes - 1) } :
            i \in WriteFrames }

\* The bytes of the range of a memory, as the target holds them.
BytesOfRange(memoryType) ==
    { [memory |-> memoryType, address |-> a] :
          a \in IF memoryType = "RAM"
                THEN targetParameters.ramStartAddress
                         .. (targetParameters.ramStartAddress + targetParameters.ramSize - 1)
                ELSE 0 .. (targetParameters.eepromSize - 1) }

\* Erasing the flash over debugWire sends nothing to the probe.
EraseOfDebugWireFlashSendsNothing ==
    (op = "eraseMemory" /\ request.memoryType = "FLASH"
        /\ config.physicalInterface = "DEBUG_WIRE")
        => trace = <<>> /\ memAccess = <<>> /\ outcome = "none"

\* Erasing the RAM or the EEPROM writes to that memory only and, when it succeeds, has
\* written 0xFF to exactly its whole range.
EraseWritesWholeRange ==
    (op = "eraseMemory" /\ request.memoryType \in {"RAM", "EEPROM"})
        => /\ BytesCoveredByWrites \subseteq BytesOfRange(request.memoryType)
           /\ outcome = "none"
                => /\ BytesCoveredByWrites = BytesOfRange(request.memoryType)
                   /\ \A b \in BytesOfRange(request.memoryType) :
                          memory[b.memory][b.address] = 255

\* C33: Avr8::eraseMemory sends nothing to the probe for the flash on debugWire, writes
\* 0xFF to exactly the whole range of the RAM or of the EEPROM, and issues no write to the
\* target for any other memory type (FUSES, OTHER).
EraseWritesOnlyRamAndEeprom ==
    /\ EraseOfDebugWireFlashSendsNothing
    /\ EraseWritesWholeRange
    /\ (op = "eraseMemory" /\ request.memoryType \in {"FUSES", "OTHER"})
           => WriteFrames = {}

(***************************************************************************)
(* The EEPROM across a chip erase                                          *)
(***************************************************************************)
\* The frames of the last operation, by their place in its trace.
ChipEraseFrames == { i \in DOMAIN trace : trace[i][1] = "EraseMemory:CHIP" }
ReadMemoryFramesInTrace == { i \in DOMAIN trace : trace[i][1] = "ReadMemory" }
WriteMemoryFramesInTrace == { i \in DOMAIN trace : trace[i][1] = "WriteMemory" }

\* The bytes of the target that the ReadMemory frames of the last operation cover.
BytesCoveredByReads ==
    UNION { { ProbeAddress(memAccess[i].type, a) :
                  a \in memAccess[i].address .. (memAccess[i].address + memAccess[i].bytes - 1) } :
            i \in { j \in DOMAIN memAccess : memAccess[j].access = "read" } }

\* The EEPROM of the target, as the buffer of its bytes.
EepromContent == [i \in 1 .. targetParameters.eepromSize |-> memory.EEPROM[i - 1]]

\* The program memory of a JTAG or UPDI target configured to preserve its EEPROM has
\* been erased, or the attempt was made.
ChipEraseWithPreservedEeprom ==
    /\ op = "eraseMemory"
    /\ request.memoryType = "FLASH"
    /\ config.preserveEeprom
    /\ configVariant \in {"MEGAJTAG", "UPDI"}

\* C34: on JTAG and UPDI with the EEPROM preserved, eraseProgramMemory reads the whole
\* EEPROM before it sends the chip erase, writes to the target only after a chip erase
\* that succeeded, and leaves the EEPROM as it was when it succeeds; when the chip erase
\* fails nothing is written and the failure reaches the caller.
EepromRestoredAfterChipErase ==
    ChipEraseWithPreservedEeprom
        => /\ \A e \in ChipEraseFrames :
                  /\ \A r \in ReadMemoryFramesInTrace :
                         r < e /\ trace[r] = <<"ReadMemory", "OK">>
                  /\ BytesCoveredByReads = BytesOfRange("EEPROM")
                  /\ \A w \in WriteMemoryFramesInTrace : w > e
           /\ WriteMemoryFramesInTrace # {}
                  => \E e \in ChipEraseFrames : trace[e] = <<"EraseMemory:CHIP", "OK">>
           /\ outcome = "none"
                  => /\ Cardinality(ChipEraseFrames) = 1
                     /\ EepromContent = request.data
           /\ (\E e \in ChipEraseFrames : trace[e] = <<"EraseMemory:CHIP", "FAILED">>)
                  => /\ WriteMemoryFramesInTrace = {}
                     /\ outcome = "Avr8CommandFailure"
                     /\ EepromContent = request.data

\* The flash was erased and the EEPROM, which held data, was written back.
EepromRestored ==
    /\ ChipEraseWithPreservedEeprom
    /\ outcome = "none"
    /\ \A a \in DOMAIN memory.FLASH : memory.FLASH[a] = 255
    /\ \E i \in DOMAIN request.data : request.data[i] # 255
    /\ WriteMemoryFramesInTrace # {}

(***************************************************************************)
(* Register writes                                                         *)
(***************************************************************************)
\* The SetProgramCounter frames of the last operation.
SetProgramCounterFrames ==
    { i \in DOMAIN memAccess : memAccess[i].access = "setProgramCounter" }

\* The registers of the request that are the program counter, and the others.
ProgramCounterRegisters ==
    { i \in DOMAIN request.registers :
          request.registers[i].descriptor.type = "PROGRAM_COUNTER" }
OtherRegisters == DOMAIN request.registers \ ProgramCounterRegisters

\* The value of a register of the request is longer than its descriptor says.
ValueTooLong(i) ==
    Len(request.registers[i].value) > request.registers[i].descriptor.size

\* The value of a register of the request, zero-padded on the MSB side to the size of
\* its descriptor.
PaddedValue(i) ==
    ZeroPadded(request.registers[i].value,
               request.registers[i].descriptor.size - Len(request.registers[i].value))

\* The number that the bytes of a buffer make, most significant byte first.
RECURSIVE NumberOf(_)
NumberOf(buffer) ==
    IF buffer = <<>>
    THEN 0
    ELSE NumberOf(SubSeq(buffer, 1, Len(buffer) - 1)) * 256 + buffer[Len(buffer)]

\* The target holds the padded value of register i of the request, least significant
\* byte first, or has its program counter at the word of that value.
RegisterHoldsPaddedValue(i) ==
    LET reg == request.registers[i]
        name == IF /\ reg.descriptor.type = "GENERAL_PURPOSE_REGISTER"
                   /\ configVariant \in {"XMEGA", "UPDI"}
                THEN "REGISTER_FILE"
                ELSE "RAM"
    IN  IF i \in ProgramCounterRegisters
        THEN programCounter = [known |-> TRUE, address |-> NumberOf(PaddedValue(i)) \div 2]
        ELSE \A j \in 1 .. reg.descriptor.size :
                 memory[name][reg.descriptor.startAddress + j - 1]
                     = PaddedValue(i)[reg.descriptor.size + 1 - j]

\* Register i of the request is the last one of its descriptor.
LastOfDescriptor(i) ==
    \A k \in DOMAIN request.registers :
        k > i => request.registers[k].descriptor # request.registers[i].descriptor

\* A request that was carried out has written every register whose value is no longer
\* than its descriptor says with that value zero-padded on the MSB side.
RegistersWrittenZeroPadded ==
    (op = "writeRegisters" /\ outcome = "none")
        => \A i \in DOMAIN request.registers :
               (LastOfDescriptor(i) /\ ~ValueTooLong(i)) => RegisterHoldsPaddedValue(i)

\* A program counter register is set with SetProgramCounter and never written to memory.
ProgramCounterRegisterSetNotWritten ==
    op = "writeRegisters"
        => /\ Cardinality(WriteFrames) <= Cardinality(OtherRegisters)
           /\ Cardinality(SetProgramCounterFrames) <= Cardinality(ProgramCounterRegisters)
           /\ outcome = "none"
                  => Cardinality(SetProgramCounterFrames) = Cardinality(ProgramCounterRegisters)

\* A register whose value is too long makes the request fail before that register is
\* written or set.
TooLongValueFailsRequest ==
    op = "writeRegisters"
        => \A i \in DOMAIN request.registers :
               ValueTooLong(i)
                   => /\ outcome # "none"
                      /\ i \in OtherRegisters
                             => Cardinality(WriteFrames)
                                    <= Cardinality({ k \in OtherRegisters : k < i })
                      /\ i \in ProgramCounterRegisters
                             => Cardinality(SetProgramCounterFrames)
                                    <= Cardinality({ k \in ProgramCounterRegisters : k < i })

\* C35: every register of a write request, the program counter included, is written with
\* its value zero-padded on the MSB side when the value is shorter than the descriptor
\* size, fails the request without being written when the value is longer, and a program
\* counter register is set with SetProgramCounter and never written to memory.
RegisterWritesPadOrFail ==
    /\ RegistersWrittenZeroPadded
    /\ TooLongValueFailsRequest
    /\ ProgramCounterRegisterSetNotWritten

(***************************************************************************)
(* The response packets of the packet handlers                             *)
(***************************************************************************)
\* The packets that the last operation wrote to the connection.
PacketsWritten == { i \in DOMAIN trace : trace[i][1] = "writePacket" }

\* The last operation was a packet handler.
PacketHandled ==
    op \in {"WriteMemory::handle", "ReadRegisters::handle", "ResetTarget::handle",
            "Detach::handle"}

\* The target operation of the handler threw, or returned.
TargetOperationFailed == \E i \in DOMAIN trace : trace[i][2] = "throw"
TargetOperationSucceeded == \E i \in DOMAIN trace : trace[i][2] = "return"

\* C36: every invocation of the handlers of the M, g/p, monitor reset and D packets
\* writes exactly one response packet, the error response when the target operation
\* failed and the success response when it succeeded, and lets no failure of the target
\* operation escape.
HandlerWritesOneResponse ==
    PacketHandled
        => /\ Cardinality(PacketsWritten) = 1
           /\ outcome = "none"
           /\ TargetOperationFailed
                  => \A i \in PacketsWritten : trace[i][2] = "ErrorResponsePacket"
           /\ TargetOperationSucceeded
                  => \A i \in PacketsWritten :
                         trace[i][2] \in {"OkResponsePacket", "ResponsePacket"}

\* A handler answered a failed target operation with the error response.
FailedOperationAnswered ==
    /\ op \in {"ReadRegisters::handle", "ResetTarget::handle", "Detach::handle"}
    /\ TargetOperationFailed
    /\ trace[Len(trace)] = <<"writePacket", "ErrorResponsePacket">>

(***************************************************************************)
(* The ids of commands                                                     *)
(***************************************************************************)
\* C37: the ids given to newly constructed commands are pairwise distinct and strictly
\* increasing in the order in which the counter gave them out, however the threads that
\* construct commands interleave.
CommandIdsDistinctAndIncreasing ==
    /\ \A i, j \in DOMAIN commandIds : i < j => commandIds[i] < commandIds[j]
    /\ \A a, b \in Threads :
           (a # b /\ constructing[a].state = "assigned" /\ constructing[b].state = "assigned")
               => constructing[a].id # constructing[b].id

\* Two threads are constructing a command at once and the counter has given out three
\* ids or more.
CommandsConstructedConcurrently ==
    /\ Len(commandIds) >= 3
    /\ \E a, b \in Threads :
           a # b /\ constructing[a].state = "assigned" /\ constructing[b].state = "assigned"

====
